---- MODULE Spec2Model ----
(***************************************************************************)
(* CTF Hunger Games match engine (src/src/ctf_hunger_game.py) and the      *)
(* round loop that drives it (src/src/agent.py).                           *)
(*                                                                         *)
(* The engine is modelled functionally: every method of CTFHungerGame and  *)
(* GreenAgent that changes the match is an operator from a match record    *)
(*   g = [players, hexagons, game_over, winner]                            *)
(* to the record after the call.  A method that can raise carries the      *)
(* exception in the `raised` field of what it returns, together with the   *)
(* match as the exception left it (Python keeps every assignment made      *)
(* before the raise).                                                      *)
(*                                                                         *)
(* Numbers: objective progress is a float in the code; the model counts it *)
(* in hundredths of a percent (10000 = 100%).                              *)
(***************************************************************************)
EXTENDS Integers, Sequences, FiniteSets, TLC

(***************************************************************************)
(* Bounds of the model.  The code plays 6 participants on a board of       *)
(* radius 4; the model plays the first NumPlayers of them on a board of    *)
(* radius board_radius, the spawn cells being the vertices of that board   *)
(* as they are the vertices of the radius-4 board in the code.             *)
(***************************************************************************)
NumPlayers == 3

board_radius == 1

\* free turns explored after the opening of a scenario
MaxTurns == 2

\* the wall clock may pass max_time until this many free turns are played
MaxLateTurn == 1
MaxRoundNumber == 1
MaxRoundTurn == 1
\* the turns taken from a board of the nearest-unowned search (SpecSearch)
MaxSearchTurns == 2

\* rounds of the round loop (agent.py:52 plays range(1, 21))
MaxRounds == 20

Players == 1..NumPlayers

\* owner None, winner None
None == 0

Abs(x) == IF x < 0 THEN -x ELSE x

Min(a, b) == IF a < b THEN a ELSE b

Max(a, b) == IF a > b THEN a ELSE b

Range(s) == {s[i] : i \in DOMAIN s}

(***************************************************************************)
(* Hexagon coordinate helpers                                              *)
(***************************************************************************)
_hex_distance(hex1, hex2) ==
    (Abs(hex1[1] - hex2[1]) + Abs(hex1[2] - hex2[2])
        + Abs((hex1[1] + hex1[2]) - (hex2[1] + hex2[2]))) \div 2

\* _is_adjacent with `<= 1`: a cell would be adjacent to itself
_is_adjacent_or_same(hex1, hex2) ==
    (Abs(hex1[1] - hex2[1]) + Abs(hex1[2] - hex2[2])
        + Abs((hex1[1] + hex1[2]) - (hex2[1] + hex2[2]))) \div 2 <= 1

_is_adjacent(hex1, hex2) ==
    LET dq == Abs(hex1[1] - hex2[1])
        dr == Abs(hex1[2] - hex2[2])
        ds == Abs((hex1[1] + hex1[2]) - (hex2[1] + hex2[2]))
    IN  (dq + dr + ds) \div 2 = 1

directions == << <<1, 0>>, <<1, -1>>, <<0, -1>>, <<-1, 0>>, <<-1, 1>>, <<0, 1>> >>

\* the cells _initialize_board generates
Cells ==
    {c \in (-board_radius..board_radius) \X (-board_radius..board_radius) :
        Abs(-c[1] - c[2]) <= board_radius}

\* the six vertices, in the order of the code's list
spawn_positions ==
    << <<0, -board_radius>>, <<board_radius, -board_radius>>, <<board_radius, 0>>,
       <<0, board_radius>>, <<-board_radius, board_radius>>, <<-board_radius, 0>> >>

\* _get_adjacent_hexagons with the directions list walked from its end
_get_adjacent_hexagons_reversed(hexagons, hex_pos) ==
    LET all == [i \in 1..6 |-> <<hex_pos[1] + directions[7 - i][1],
                                  hex_pos[2] + directions[7 - i][2]>>]
    IN  SelectSeq(all, LAMBDA n : n \in DOMAIN hexagons)


\* the neighbours of hex_pos that are cells of the board, in direction order
_get_adjacent_hexagons(hexagons, hex_pos) ==
    LET all == [i \in 1..6 |-> <<hex_pos[1] + directions[i][1], hex_pos[2] + directions[i][2]>>]
    IN  SelectSeq(all, LAMBDA n : n \in DOMAIN hexagons)


(***************************************************************************)
(* Construction                                                            *)
(***************************************************************************)
\* one cell as _initialize_board stores it
NewHex(hex_type) ==
    [type |-> hex_type, owner |-> None, defense |-> 0, bonus_consumed |-> FALSE]

\* the candidates without `if (q, r) in spawn_positions`: the first spawn
\* cell takes part in the random draw
ResourceCandidates_with_spawn == {<<0, 0>>, spawn_positions[1]}

\* the cells whose random type is explored: the centre.  On a board of
\* radius 1 it is the only cell that is not a spawn cell.
ResourceCandidates == {<<0, 0>>} \ Range(spawn_positions)

\* the boards _initialize_board can return: spawn cells NORMAL, any other
\* cell NORMAL or RESOURCE as _get_random_hex_type draws it
Boards ==
    {[c \in Cells |-> NewHex(IF c \in rs THEN "RESOURCE" ELSE "NORMAL")] :
        rs \in SUBSET ResourceCandidates}

\* one participant as _initialize_players stores it.  The keys 'alive' and
\* '_bad_moves' do not exist at construction: alive = "absent" says so;
\* _bad_moves is only ever read through setdefault(.., 0) or get(.., 0).
\* Write-only fields (name, color, actions_taken, since_objective) and the
\* vision caches (visible_hexagons, visible_players) are left out: no
\* operation reads them to decide anything.
NewPlayer(i) ==
    [position |-> spawn_positions[i],
     energy |-> 15,
     max_energy |-> 15,
     health |-> 100,
     shield |-> 0,
     status |-> "ALIVE",
     alive |-> "absent",
     ctf_progress |-> 0,
     ctf_hints |-> <<>>,
     ctf_attempts |-> 0,
     territories |-> {},
     territory_income |-> 0,
     attack_power |-> 5,
     defense_power |-> 3,
     kills |-> 0,
     defending |-> FALSE,
     vision_range |-> 2,
     idle_streak |-> 0,
     last_actions |-> <<>>,
     seen_tiles |-> {},
     _bad_moves |-> 0]

_initialize_players == [i \in Players |-> NewPlayer(i)]

(***************************************************************************)
(* Game state & management                                                 *)
(***************************************************************************)
\* PlayerStatus has the members ALIVE, ELIMINATED, WINNER, LOST_TIMEOUT.  The
\* three-strikes rule of _action_move stores PlayerStatus.ELIMINATED.value,
\* the string 'eliminated', which equals no member of the enum.
\* get_alive_players reading only the enum: a status stored as the str
\* 'eliminated' would count as alive
get_alive_players_by_enum(g) ==
    {pid \in Players : g.players[pid].status \notin {"ELIMINATED", "WINNER", "LOST_TIMEOUT"}}

get_alive_players(g) == {pid \in Players : g.players[pid].status = "ALIVE"}

\* _declare_winner without self.winner = player_id and self.game_over = True
_declare_winner_status_only(g, player_id, timeout) ==
    [g EXCEPT !.players[player_id].status = "WINNER"]

\* _declare_winner without the loop that marks the other ALIVE participants
_declare_winner_sparing_others(g, player_id, timeout) ==
    [g EXCEPT !.winner = player_id,
              !.game_over = TRUE,
              !.players[player_id].status = "WINNER"]

_declare_winner(g, player_id, timeout) ==
    LET loser_status == IF timeout THEN "LOST_TIMEOUT" ELSE "ELIMINATED"
    IN  [g EXCEPT
            !.winner = player_id,
            !.game_over = TRUE,
            !.players = [pid \in Players |->
                IF pid = player_id THEN [g.players[pid] EXCEPT !.status = "WINNER"]
                ELSE IF g.players[pid].status = "ALIVE"
                     THEN [g.players[pid] EXCEPT !.status = loser_status]
                     ELSE g.players[pid]]]

eliminate_player(g, player_id) ==
    LET g1 == [g EXCEPT
                !.players[player_id].status = "ELIMINATED",
                !.hexagons = [c \in DOMAIN g.hexagons |->
                    IF c \in g.players[player_id].territories
                    THEN [g.hexagons[c] EXCEPT !.owner = None]
                    ELSE g.hexagons[c]]]
        alive_players == get_alive_players(g1)
    IN  IF Cardinality(alive_players) = 1
        THEN _declare_winner(g1, CHOOSE pid \in alive_players : TRUE, FALSE)
        ELSE IF Cardinality(alive_players) = 0
             THEN [g1 EXCEPT !.game_over = TRUE]
             ELSE g1

\* the loop of _check_eliminations from participant player_id on
RECURSIVE CheckFrom(_, _)
CheckFrom(g, player_id) ==
    IF player_id > NumPlayers THEN g
    ELSE LET player == g.players[player_id]
             g1 == IF player.status = "ALIVE" /\ player.health <= 0
                   THEN eliminate_player(g, player_id)
                   ELSE IF player.status = "ALIVE" /\ player.energy < 0
                        THEN eliminate_player(g, player_id)
                        ELSE g
         IN  CheckFrom(g1, player_id + 1)

_check_eliminations(g) == CheckFrom(g, 1)

_apply_idle_tax(g, player_id, is_objective_action) ==
    LET player == g.players[player_id]
    IN  IF is_objective_action
        THEN [g EXCEPT !.players[player_id].idle_streak = 0]
        ELSE IF player.idle_streak + 1 >= 3
             THEN [g EXCEPT !.players[player_id].idle_streak = 0,
                            !.players[player_id].energy = player.energy - 2]
             ELSE [g EXCEPT !.players[player_id].idle_streak = player.idle_streak + 1]

(***************************************************************************)
(* Nearest unowned cell                                                    *)
(***************************************************************************)
\* "Backtrack to find first step"
RECURSIVE FirstStep(_, _, _)
FirstStep(parent, start, cur) ==
    IF parent[cur] = start THEN cur ELSE FirstStep(parent, start, parent[cur])

\* the while-loop of _find_nearest_unowned_for_player; <<>> is Python's None
RECURSIVE Bfs(_, _, _, _, _)
Bfs(hexagons, start, queue, seen, parent) ==
    IF queue = <<>> THEN <<>>
    ELSE LET cur == Head(queue)
         IN  IF cur # start /\ cur \in DOMAIN hexagons /\ hexagons[cur].owner = None
             THEN FirstStep(parent, start, cur)
             ELSE LET fresh == SelectSeq(_get_adjacent_hexagons(hexagons, cur),
                                         LAMBDA n : n \notin seen)
                  IN  Bfs(hexagons, start, Tail(queue) \o fresh,
                          seen \cup Range(fresh),
                          [n \in DOMAIN parent \cup Range(fresh) |->
                              IF n \in DOMAIN parent THEN parent[n] ELSE cur])

\* the search without "Backtrack to find first step": it answers the unowned
\* cell it found
RECURSIVE BfsTo(_, _, _, _)
BfsTo(hexagons, start, queue, seen) ==
    IF queue = <<>> THEN <<>>
    ELSE LET cur == Head(queue)
         IN  IF cur # start /\ cur \in DOMAIN hexagons /\ hexagons[cur].owner = None
             THEN cur
             ELSE LET fresh == SelectSeq(_get_adjacent_hexagons(hexagons, cur),
                                         LAMBDA n : n \notin seen)
                  IN  BfsTo(hexagons, start, Tail(queue) \o fresh, seen \cup Range(fresh))

_find_nearest_unowned_without_backtrack(g, player_id) ==
    BfsTo(g.hexagons, g.players[player_id].position,
          <<g.players[player_id].position>>, {g.players[player_id].position})

_find_nearest_unowned_for_player(g, player_id) ==
    LET start == g.players[player_id].position
    IN  Bfs(g.hexagons, start, <<start>>, {start}, [n \in {start} |-> <<>>])

(***************************************************************************)
(* Action implementations.  Each returns [g, result]: the match after the  *)
(* call and the dict the method returns.  Of that dict the model keeps     *)
(*   action           its 'action' key, "none" when the dict has none      *)
(*   success          its 'success' key                                    *)
(*   error            its 'error' key, "none" when the dict has none       *)
(*   original_action  set by a stall auto-conversion, else "none"          *)
(* data is the payload of the turn: target (<<>> when the key is missing), *)
(* target_player (None when the key is missing), flag ("none" when no flag *)
(* is given), and the two random draws a resolver may make: gain, the      *)
(* random.uniform(5, 15) of _calculate_ctf_progress_gain, and coin, the    *)
(* outcome of random.random() < 0.5 in _action_steal_progress.             *)
(***************************************************************************)
Result(action, success, error) ==
    [action |-> action, success |-> success, error |-> error, original_action |-> "none"]

_coord_key(coord) == <<coord[1], coord[2]>>

\* last_actions.append(kind), then pop(0) when longer than 5
TrackAction(last_actions, kind) ==
    LET appended == Append(last_actions, kind)
    IN  IF Len(appended) > 5 THEN Tail(appended) ELSE appended

\* the two "Penalize invalid move" branches of _action_move
BadMove(g, player_id, error) ==
    LET player == g.players[player_id]
        strikes == player._bad_moves + 1
        penalized == [player EXCEPT !._bad_moves = strikes,
                                    !.energy = Max(0, player.energy - 1)]
        after == IF strikes >= 3
                 THEN [penalized EXCEPT !.alive = "False", !.status = "eliminated"]
                 ELSE penalized
    IN  [g |-> [g EXCEPT !.players[player_id] = after],
         result |-> Result("none", FALSE, error)]

\* _action_move with the bonus granted on every arrival at a RESOURCE cell
\* (without `and not hex_data.get('bonus_consumed')`)
_action_move_bonus_on_every_arrival(g, player_id, data) ==
    LET player == g.players[player_id]
        target_hex == data.target
    IN  IF target_hex = <<>>
        THEN [g |-> g, result |-> Result("none", FALSE, "No target specified")]
        ELSE IF ~_is_adjacent(player.position, target_hex)
        THEN BadMove(g, player_id, "Target not adjacent")
        ELSE IF target_hex \notin DOMAIN g.hexagons
        THEN BadMove(g, player_id, "Invalid target hexagon")
        ELSE IF player.energy < 2
        THEN [g |-> g, result |-> Result("none", FALSE, "Insufficient energy")]
        ELSE LET bonus == g.hexagons[target_hex].type = "RESOURCE"
                 moved == [player EXCEPT
                            !.position = target_hex,
                            !._bad_moves = 0,
                            !.energy = IF bonus
                                       THEN Min(player.max_energy, player.energy - 2 + 3)
                                       ELSE player.energy - 2]
             IN  [g |-> [g EXCEPT
                            !.players[player_id] = moved,
                            !.hexagons[target_hex].bonus_consumed =
                                IF bonus THEN TRUE ELSE @],
                  result |-> Result("move", TRUE, "none")]

\* _action_move without the "Check if adjacent" branch
_action_move_without_adjacency(g, player_id, data) ==
    LET player == g.players[player_id]
        target_hex == data.target
    IN  IF target_hex = <<>>
        THEN [g |-> g, result |-> Result("none", FALSE, "No target specified")]
        ELSE IF target_hex \notin DOMAIN g.hexagons
        THEN BadMove(g, player_id, "Invalid target hexagon")
        ELSE IF player.energy < 2
        THEN [g |-> g, result |-> Result("none", FALSE, "Insufficient energy")]
        ELSE LET hex_data == g.hexagons[target_hex]
                 bonus == hex_data.type = "RESOURCE" /\ ~hex_data.bonus_consumed
                 moved == [player EXCEPT
                            !.position = target_hex,
                            !._bad_moves = 0,
                            !.energy = IF bonus
                                       THEN Min(player.max_energy, player.energy - 2 + 3)
                                       ELSE player.energy - 2]
             IN  [g |-> [g EXCEPT
                            !.players[player_id] = moved,
                            !.hexagons[target_hex].bonus_consumed =
                                IF bonus THEN TRUE ELSE hex_data.bonus_consumed],
                  result |-> Result("move", TRUE, "none")]


_action_move(g, player_id, data) ==
    LET player == g.players[player_id]
        target_hex == data.target
    IN  IF target_hex = <<>>
        THEN [g |-> g, result |-> Result("none", FALSE, "No target specified")]
        ELSE IF ~_is_adjacent(player.position, target_hex)
        THEN BadMove(g, player_id, "Target not adjacent")
        ELSE IF target_hex \notin DOMAIN g.hexagons
        THEN BadMove(g, player_id, "Invalid target hexagon")
        ELSE IF player.energy < 2
        THEN [g |-> g, result |-> Result("none", FALSE, "Insufficient energy")]
        ELSE LET hex_data == g.hexagons[target_hex]
                 bonus == hex_data.type = "RESOURCE" /\ ~hex_data.bonus_consumed
                 moved == [player EXCEPT
                            !.position = target_hex,
                            !._bad_moves = 0,
                            !.energy = IF bonus
                                       THEN Min(player.max_energy, player.energy - 2 + 3)
                                       ELSE player.energy - 2]
             IN  [g |-> [g EXCEPT
                            !.players[player_id] = moved,
                            !.hexagons[target_hex].bonus_consumed =
                                IF bonus THEN TRUE ELSE hex_data.bonus_consumed],
                  result |-> Result("move", TRUE, "none")]

\* _action_attack_player with the damage not reduced by the target's
\* defense_power (actual_damage = max(0, total_damage - shield_before))
_action_attack_player_ignoring_defense(g, player_id, data) ==
    LET attacker == g.players[player_id]
        target_id == data.target_player
    IN  IF target_id = None
        THEN [g |-> g, result |-> Result("none", FALSE, "No target player specified")]
        ELSE IF target_id \notin Players
        THEN [g |-> g, result |-> Result("none", FALSE, "Invalid target player")]
        ELSE LET target == g.players[target_id]
             IN  IF target.status # "ALIVE"
                 THEN [g |-> g, result |-> Result("none", FALSE, "Target player is not alive")]
                 ELSE IF ~_is_adjacent(attacker.position, target.position)
                 THEN [g |-> g, result |-> Result("none", FALSE, "Target not adjacent")]
                 ELSE IF target.defending
                 THEN [g |-> g, result |-> Result("attack_player", FALSE, "none")]
                 ELSE IF attacker.energy < 4
                 THEN [g |-> g, result |-> Result("none", FALSE, "Insufficient energy")]
                 ELSE
                 LET total_damage == attacker.attack_power
                     actual_damage == Max(0, total_damage - target.shield)
                     stolen_energy == IF actual_damage > 0 THEN Min(3, target.energy) ELSE 0
                     g1 == [g EXCEPT
                            !.players[player_id].energy =
                                Min(attacker.max_energy, attacker.energy - 4 + stolen_energy),
                            !.players[target_id].shield = Max(0, target.shield - total_damage),
                            !.players[target_id].health = target.health - actual_damage,
                            !.players[target_id].energy = target.energy - stolen_energy]
                     g2 == IF g1.players[target_id].health <= 0
                           THEN LET e == eliminate_player(g1, target_id)
                                IN  [e EXCEPT
                                        !.players[player_id].kills = @ + 1,
                                        !.players[player_id].ctf_progress =
                                            Min(10000, @ + (e.players[target_id].ctf_progress * 3) \div 10)]
                           ELSE g1
                 IN  [g |-> g2, result |-> Result("attack_player", TRUE, "none")]

\* _action_attack_player whose kill eliminates the target and credits the
\* attacker nothing (without `attacker['kills'] += 1` and the progress share)
_action_attack_player_without_spoils(g, player_id, data) ==
    LET attacker == g.players[player_id]
        target_id == data.target_player
    IN  IF target_id = None
        THEN [g |-> g, result |-> Result("none", FALSE, "No target player specified")]
        ELSE IF target_id \notin Players
        THEN [g |-> g, result |-> Result("none", FALSE, "Invalid target player")]
        ELSE LET target == g.players[target_id]
             IN  IF target.status # "ALIVE"
                 THEN [g |-> g, result |-> Result("none", FALSE, "Target player is not alive")]
                 ELSE IF ~_is_adjacent(attacker.position, target.position)
                 THEN [g |-> g, result |-> Result("none", FALSE, "Target not adjacent")]
                 ELSE IF target.defending
                 THEN [g |-> g, result |-> Result("attack_player", FALSE, "none")]
                 ELSE IF attacker.energy < 4
                 THEN [g |-> g, result |-> Result("none", FALSE, "Insufficient energy")]
                 ELSE
                 LET total_damage == attacker.attack_power
                     actual_damage == Max(0, total_damage - target.shield - target.defense_power)
                     stolen_energy == IF actual_damage > 0 THEN Min(3, target.energy) ELSE 0
                     g1 == [g EXCEPT
                            !.players[player_id].energy =
                                Min(attacker.max_energy, attacker.energy - 4 + stolen_energy),
                            !.players[target_id].shield = Max(0, target.shield - total_damage),
                            !.players[target_id].health = target.health - actual_damage,
                            !.players[target_id].energy = target.energy - stolen_energy]
                 IN  [g |-> IF g1.players[target_id].health <= 0
                            THEN eliminate_player(g1, target_id) ELSE g1,
                      result |-> Result("attack_player", TRUE, "none")]

_action_attack_player(g, player_id, data) ==
    LET attacker == g.players[player_id]
        target_id == data.target_player
    IN  IF target_id = None
        THEN [g |-> g, result |-> Result("none", FALSE, "No target player specified")]
        ELSE IF target_id \notin Players
        THEN [g |-> g, result |-> Result("none", FALSE, "Invalid target player")]
        ELSE LET target == g.players[target_id]
             IN  IF target.status # "ALIVE"
                 THEN [g |-> g, result |-> Result("none", FALSE, "Target player is not alive")]
                 ELSE IF ~_is_adjacent(attacker.position, target.position)
                 THEN [g |-> g, result |-> Result("none", FALSE, "Target not adjacent")]
                 ELSE IF target.defending
                 THEN [g |-> g, result |-> Result("attack_player", FALSE, "none")]
                 ELSE IF attacker.energy < 4
                 THEN [g |-> g, result |-> Result("none", FALSE, "Insufficient energy")]
                 ELSE
                 LET total_damage == attacker.attack_power
                     actual_damage == Max(0, total_damage - target.shield - target.defense_power)
                     stolen_energy == IF actual_damage > 0 THEN Min(3, target.energy) ELSE 0
                     g1 == [g EXCEPT
                            !.players[player_id].energy =
                                IF actual_damage > 0
                                THEN Min(attacker.max_energy, attacker.energy - 4 + stolen_energy)
                                ELSE attacker.energy - 4,
                            !.players[target_id].shield = Max(0, target.shield - total_damage),
                            !.players[target_id].health = target.health - actual_damage,
                            !.players[target_id].energy = target.energy - stolen_energy]
                     g2 == IF g1.players[target_id].health <= 0
                           THEN LET e == eliminate_player(g1, target_id)
                                IN  [e EXCEPT
                                        !.players[player_id].kills = @ + 1,
                                        !.players[player_id].ctf_progress =
                                            Min(10000, @ + (e.players[target_id].ctf_progress * 3) \div 10)]
                           ELSE g1
                 IN  [g |-> g2, result |-> Result("attack_player", TRUE, "none")]

_calculate_ctf_progress_gain(player, gain) ==
    LET territory_bonus == Cardinality(player.territories) * 200
        attempt_bonus == Min(player.ctf_attempts * 150, 1000)
        energy_penalty == IF player.energy >= 5 THEN 0 ELSE 500
    IN  Max(0, gain + territory_bonus + attempt_bonus - energy_penalty)

\* "Unlock hints at milestones": the three ifs in sequence; hint i is ctf_hints[i-1]
UnlockHints(progress, hints) ==
    LET h1 == IF progress >= 2500 /\ Len(hints) = 0 THEN Append(hints, 1) ELSE hints
        h2 == IF progress >= 5000 /\ Len(h1) = 1 THEN Append(h1, 2) ELSE h1
        h3 == IF progress >= 7500 /\ Len(h2) = 2 THEN Append(h2, 3) ELSE h2
    IN  h3

\* validate_flag: flag_attempt == self.correct_flag
validate_flag(flag_attempt) == flag_attempt = "correct"

_action_solve_ctf(g, player_id, data) ==
    LET player == g.players[player_id]
    IN  IF player.energy < 5
        THEN [g |-> g, result |-> Result("none", FALSE, "Insufficient energy")]
        ELSE LET paid == [player EXCEPT !.energy = player.energy - 5,
                                        !.ctf_attempts = player.ctf_attempts + 1]
                 g1 == [g EXCEPT !.players[player_id] = paid]
             IN  IF data.flag # "none" /\ validate_flag(data.flag)
                 THEN [g |-> _declare_winner(g1, player_id, FALSE),
                       result |-> Result("solve_ctf", TRUE, "none")]
                 ELSE LET progress == Min(10000, paid.ctf_progress
                                            + _calculate_ctf_progress_gain(paid, data.gain))
                          solved == [paid EXCEPT
                                        !.ctf_progress = progress,
                                        !.ctf_hints = UnlockHints(progress, paid.ctf_hints),
                                        !.last_actions = TrackAction(paid.last_actions, "solve_ctf")]
                      IN  [g |-> [g EXCEPT !.players[player_id] = solved],
                           result |-> Result("solve_ctf", FALSE, "none")]

\* the stall auto-conversion shared by CLAIM_TERRITORY, REST and SCOUT:
\* _action_move to target, relabelled 'auto_move' with its original_action
AutoMove(g, player_id, target, original) ==
    LET m == _action_move(g, player_id,
                [target |-> target, target_player |-> None, flag |-> "none",
                 gain |-> 0, coin |-> FALSE])
    IN  [g |-> m.g,
         result |-> [m.result EXCEPT !.action = "auto_move", !.original_action = original]]

\* _action_claim_territory without the "Check if already owned by another
\* player" branch
_action_claim_territory_over_owner(g, player_id, data) ==
    LET player == g.players[player_id]
        current_hex == player.position
        hex_data == g.hexagons[current_hex]
    IN  IF hex_data.owner = player_id \/ current_hex \in player.territories
        THEN LET target == _find_nearest_unowned_for_player(g, player_id)
             IN  IF target # <<>> /\ player.energy >= 2
                 THEN AutoMove(g, player_id, target, "claim_territory")
                 ELSE [g |-> g, result |-> Result("claim_territory", FALSE, "Already owned")]
        ELSE IF player.energy < 3
        THEN [g |-> g, result |-> Result("none", FALSE, "Insufficient energy")]
        ELSE [g |-> [g EXCEPT
                        !.players[player_id].energy = player.energy - 3,
                        !.hexagons[current_hex].owner = player_id,
                        !.players[player_id].territories = player.territories \cup {current_hex},
                        !.players[player_id].territory_income = player.territory_income + 1,
                        !.players[player_id].idle_streak = 0],
              result |-> Result("claim_territory", TRUE, "none")]


_action_claim_territory(g, player_id, data) ==
    LET player == g.players[player_id]
        current_hex == player.position
        hex_data == g.hexagons[current_hex]
    IN  IF hex_data.owner = player_id \/ current_hex \in player.territories
        THEN LET target == _find_nearest_unowned_for_player(g, player_id)
             IN  IF target # <<>> /\ player.energy >= 2
                 THEN AutoMove(g, player_id, target, "claim_territory")
                 ELSE [g |-> g, result |-> Result("claim_territory", FALSE, "Already owned")]
        ELSE IF hex_data.owner # None /\ hex_data.owner # player_id
        THEN [g |-> g, result |-> Result("none", FALSE, "Hexagon owned by another player")]
        ELSE IF player.energy < 3
        THEN [g |-> g, result |-> Result("none", FALSE, "Insufficient energy")]
        ELSE [g |-> [g EXCEPT
                        !.players[player_id].energy = player.energy - 3,
                        !.hexagons[current_hex].owner = player_id,
                        !.players[player_id].territories = player.territories \cup {current_hex},
                        !.players[player_id].territory_income =
                            IF current_hex \in player.territories
                            THEN player.territory_income
                            ELSE player.territory_income + 1,
                        !.players[player_id].idle_streak = 0],
              result |-> Result("claim_territory", TRUE, "none")]

\* _action_rest with the anti-spam test on the last tracked action alone
\* (without `and player['energy'] >= 4`)
_action_rest_at_any_energy(g, player_id, data) ==
    LET player == g.players[player_id]
        spam == player.last_actions # <<>>
                /\ player.last_actions[Len(player.last_actions)] = "rest"
        target == IF spam THEN _find_nearest_unowned_for_player(g, player_id) ELSE <<>>
    IN  IF spam /\ target # <<>> /\ player.energy >= 2
        THEN AutoMove(g, player_id, target, "rest")
        ELSE LET energy_gain == 3 + player.territory_income
                 rested == [player EXCEPT
                            !.energy = Min(player.max_energy, player.energy + energy_gain),
                            !.health = Min(100, player.health + 10),
                            !.last_actions = TrackAction(player.last_actions, "rest")]
             IN  [g |-> [g EXCEPT !.players[player_id] = rested],
                  result |-> Result("rest", TRUE, "none")]


\* _action_rest that adds the energy gain without the min(max_energy, ...)
_action_rest_uncapped(g, player_id, data) ==
    LET player == g.players[player_id]
        spam == player.last_actions # <<>>
                /\ player.last_actions[Len(player.last_actions)] = "rest"
                /\ player.energy >= 4
        target == IF spam THEN _find_nearest_unowned_for_player(g, player_id) ELSE <<>>
    IN  IF spam /\ target # <<>> /\ player.energy >= 2
        THEN AutoMove(g, player_id, target, "rest")
        ELSE LET energy_gain == 3 + player.territory_income
                 rested == [player EXCEPT
                            !.energy = player.energy + energy_gain,
                            !.health = Min(100, player.health + 10),
                            !.last_actions = TrackAction(player.last_actions, "rest")]
             IN  [g |-> [g EXCEPT !.players[player_id] = rested],
                  result |-> Result("rest", TRUE, "none")]


_action_rest(g, player_id, data) ==
    LET player == g.players[player_id]
        spam == player.last_actions # <<>>
                /\ player.last_actions[Len(player.last_actions)] = "rest"
                /\ player.energy >= 4
        target == IF spam THEN _find_nearest_unowned_for_player(g, player_id) ELSE <<>>
    IN  IF spam /\ target # <<>> /\ player.energy >= 2
        THEN AutoMove(g, player_id, target, "rest")
        ELSE LET energy_gain == 3 + player.territory_income
                 hex_defense == g.hexagons[player.position].defense
                 rested == [player EXCEPT
                            !.energy = Min(player.max_energy, player.energy + energy_gain),
                            !.health = Min(100, player.health + 10),
                            !.shield = IF hex_defense > 0
                                       THEN Min(20, player.shield + hex_defense * 2)
                                       ELSE player.shield,
                            !.last_actions = TrackAction(player.last_actions, "rest")]
             IN  [g |-> [g EXCEPT !.players[player_id] = rested],
                  result |-> Result("rest", TRUE, "none")]

\* _action_scout without "Reset vision range": the raised vision_range stays
_action_scout_keeping_vision(g, player_id, data) ==
    LET player == g.players[player_id]
        current_pos == player.position
        neighbors == _get_adjacent_hexagons(g.hexagons, current_pos)
        unseen_neighbors == SelectSeq(neighbors, LAMBDA nb : _coord_key(nb) \notin player.seen_tiles)
        spam == unseen_neighbors = <<>> /\ Cardinality(player.seen_tiles) > 3
        target == IF spam THEN _find_nearest_unowned_for_player(g, player_id) ELSE <<>>
    IN  IF player.energy < 2
        THEN [g |-> g, result |-> Result("none", FALSE, "Insufficient energy")]
        ELSE IF spam /\ target # <<>> /\ player.energy >= 2
        THEN AutoMove(g, player_id, target, "scout")
        ELSE [g |-> [g EXCEPT
                        !.players[player_id].energy = player.energy - 2,
                        !.players[player_id].seen_tiles =
                            player.seen_tiles \cup {_coord_key(current_pos)}
                                \cup {_coord_key(nb) : nb \in Range(neighbors)},
                        !.players[player_id].vision_range = player.vision_range + 2,
                        !.players[player_id].last_actions = TrackAction(player.last_actions, "scout")],
              result |-> Result("scout", TRUE, "none")]


_action_scout(g, player_id, data) ==
    LET player == g.players[player_id]
        current_pos == player.position
        neighbors == _get_adjacent_hexagons(g.hexagons, current_pos)
        unseen_neighbors == SelectSeq(neighbors, LAMBDA nb : _coord_key(nb) \notin player.seen_tiles)
        spam == unseen_neighbors = <<>> /\ Cardinality(player.seen_tiles) > 3
        target == IF spam THEN _find_nearest_unowned_for_player(g, player_id) ELSE <<>>
    IN  IF player.energy < 2
        THEN [g |-> g, result |-> Result("none", FALSE, "Insufficient energy")]
        ELSE IF spam /\ target # <<>> /\ player.energy >= 2
        THEN AutoMove(g, player_id, target, "scout")
        ELSE \* vision_range is raised by 2 and set back to original_vision
             [g |-> [g EXCEPT
                        !.players[player_id].energy = player.energy - 2,
                        !.players[player_id].seen_tiles =
                            player.seen_tiles \cup {_coord_key(current_pos)}
                                \cup {_coord_key(nb) : nb \in Range(neighbors)},
                        !.players[player_id].vision_range = (player.vision_range + 2) - 2,
                        !.players[player_id].last_actions = TrackAction(player.last_actions, "scout")],
              result |-> Result("scout", TRUE, "none")]

_action_defend(g, player_id, data) ==
    [g |-> [g EXCEPT !.players[player_id].energy = g.players[player_id].energy - 2,
                     !.players[player_id].defending = TRUE],
     result |-> Result("defend", TRUE, "none")]

_action_steal_progress(g, player_id, data) ==
    LET attacker == g.players[player_id]
        target_id == data.target_player
    IN  IF target_id = None
        THEN [g |-> g, result |-> Result("none", FALSE, "No target player specified")]
        ELSE IF target_id \notin Players
        THEN [g |-> g, result |-> Result("none", FALSE, "Invalid target player")]
        ELSE LET target == g.players[target_id]
             IN  IF target.status # "ALIVE"
                 THEN [g |-> g, result |-> Result("none", FALSE, "Target player is not alive")]
                 ELSE IF ~_is_adjacent(attacker.position, target.position)
                 THEN [g |-> g, result |-> Result("none", FALSE, "Target not adjacent")]
                 ELSE IF attacker.energy < 6
                 THEN [g |-> g, result |-> Result("none", FALSE, "Insufficient energy")]
                 ELSE IF target.health > 50
                 THEN [g |-> g, result |-> Result("none", FALSE, "Target too strong to steal from")]
                 ELSE
                 LET stolen_progress == (target.ctf_progress * 4) \div 10
                     pops == data.coin /\ Len(target.ctf_hints) > 0
                     stolen_hint == target.ctf_hints[Len(target.ctf_hints)]
                 IN  [g |-> [g EXCEPT
                        !.players[player_id].energy = attacker.energy - 6,
                        !.players[target_id].ctf_progress = Max(0, target.ctf_progress - stolen_progress),
                        !.players[player_id].ctf_progress = Min(10000, attacker.ctf_progress + stolen_progress),
                        !.players[target_id].ctf_hints =
                            IF pops THEN SubSeq(target.ctf_hints, 1, Len(target.ctf_hints) - 1)
                            ELSE target.ctf_hints,
                        !.players[player_id].ctf_hints =
                            IF pops /\ stolen_hint \notin Range(attacker.ctf_hints)
                            THEN Append(attacker.ctf_hints, stolen_hint)
                            ELSE attacker.ctf_hints,
                        !.players[target_id].health = target.health - 15],
                      result |-> Result("steal_progress", TRUE, "none")]

(***************************************************************************)
(* Dispatch                                                                *)
(***************************************************************************)
ActionType ==
    {"move", "attack_player", "solve_ctf", "claim_territory", "rest", "scout", "defend",
     "steal_progress"}

_get_action_cost(action) ==
    CASE action = "move" -> 2
      [] action = "attack_player" -> 4
      [] action = "solve_ctf" -> 5
      [] action = "claim_territory" -> 3
      [] action = "rest" -> -3
      [] action = "scout" -> 2
      [] action = "defend" -> 2
      [] action = "steal_progress" -> 4

\* action_map[action](player_id, data)
ActionFunc(g, player_id, action, data) ==
    CASE action = "move" -> _action_move(g, player_id, data)
      [] action = "attack_player" -> _action_attack_player(g, player_id, data)
      [] action = "solve_ctf" -> _action_solve_ctf(g, player_id, data)
      [] action = "claim_territory" -> _action_claim_territory(g, player_id, data)
      [] action = "rest" -> _action_rest(g, player_id, data)
      [] action = "scout" -> _action_scout(g, player_id, data)
      [] action = "defend" -> _action_defend(g, player_id, data)
      [] action = "steal_progress" -> _action_steal_progress(g, player_id, data)

\* "POST-ACTION: Clamp energy at 0 and check elimination", on what the resolver
\* r left.  player['alive'] is a KeyError while the key does not exist; the
\* only assignment to it in the code stores False.
PostAction(r, player_id) ==
    LET energy == Max(0, r.g.players[player_id].energy)
        alive == r.g.players[player_id].alive
        clamped == [r.g EXCEPT !.players[player_id].energy = energy]
    IN  [g |-> IF energy = 0 /\ alive = "True"
               THEN eliminate_player(clamped, player_id)
               ELSE clamped,
         result |-> r.result,
         raised |-> IF energy = 0 /\ alive = "absent" THEN "KeyError" ELSE "none"]

\* [g, result, raised]: raised names the exception that leaves the method,
\* "none" when it returns
_execute_action(g, player_id, action, data) ==
    IF _get_action_cost(action) > 0 /\ g.players[player_id].energy < _get_action_cost(action)
    THEN [g |-> g, result |-> Result(action, FALSE, "Insufficient energy"), raised |-> "none"]
    ELSE PostAction(ActionFunc(g, player_id, action, data), player_id)

(***************************************************************************)
(* The match                                                               *)
(***************************************************************************)
VARIABLES
    players,          \* self.players
    hexagons,         \* self.hexagons
    game_over,        \* self.game_over
    winner,           \* self.winner, None while there is none
    round_number,     \* self.round_number
    turn_number,      \* self.turn_number
    action_history,   \* self.action_history: its length and its last entry
    start_time,       \* self.start_time: "None" until start_game sets it
    time_up,          \* time.time() - self.start_time > self.max_time
    result,           \* what the latest call returned, or the exception it raised
    scenario,         \* which opening this match is played from
    run               \* Agent.run: its position in the round loop

vars ==
    <<players, hexagons, game_over, winner, round_number, turn_number, action_history,
      start_time, time_up, result, scenario, run>>

\* the match that the engine's methods read and write
engine == <<players, hexagons, game_over, winner, round_number, turn_number, action_history>>

Game == [players |-> players, hexagons |-> hexagons, game_over |-> game_over, winner |-> winner]

NoData == [target |-> <<>>, target_player |-> None, flag |-> "none", gain |-> 0, coin |-> FALSE]

\* what a call returned: the resolver's dict, the call it answers, and the
\* exception that left the call ("none" when it returned)
Outcome(call, res, raised) ==
    [call |-> call, action |-> res.action, success |-> res.success, error |-> res.error,
     original_action |-> res.original_action, raised |-> raised]

\* validate_action whose except clause answers 'legal': False
validate_action_fail_closed(verdict) == [legal |-> verdict = "legal"]

\* validate_action: the judge's verdict; an erroring judge falls back to legal
validate_action(verdict) == [legal |-> verdict # "illegal"]

\* timeout_elimination that only marks the participant, without the call of
\* eliminate_player
timeout_elimination_marking_only(g, player_id) ==
    [g |-> [g EXCEPT !.players[player_id].status = "ELIMINATED"],
     result |-> Result("none", FALSE, "Timeout")]


timeout_elimination(g, player_id) ==
    [g |-> eliminate_player(g, player_id), result |-> Result("none", FALSE, "Timeout")]

\* execute_turn once _execute_action has returned x or raised: the idle tax,
\* the record of the turn and the elimination check
AfterAction(x, player_id, action) ==
    IF x.raised # "none"
    THEN [g |-> x.g, result |-> x.result, raised |-> x.raised, recorded |-> FALSE]
    ELSE [g |-> _check_eliminations(
                    _apply_idle_tax(x.g, player_id,
                        action \in {"solve_ctf", "attack_player", "steal_progress"})),
          result |-> x.result, raised |-> "none", recorded |-> TRUE]

\* execute_turn without `if player['status'] != PlayerStatus.ALIVE`
execute_turn_without_status_check(g, player_id, action, data, verdict, timed_out) ==
    IF g.game_over
    THEN [g |-> g, result |-> Result("none", FALSE, "Game is over"),
          raised |-> "none", recorded |-> FALSE]
    ELSE IF timed_out
    THEN [g |-> timeout_elimination(g, player_id).g,
          result |-> timeout_elimination(g, player_id).result,
          raised |-> "none", recorded |-> FALSE]
    ELSE IF ~validate_action(verdict).legal
    THEN [g |-> g, result |-> Result("none", FALSE, "Illegal move blocked by Green Agent"),
          raised |-> "none", recorded |-> FALSE]
    ELSE AfterAction(_execute_action(g, player_id, action, data), player_id, action)

\* execute_turn without its first test, `if self.game_over`
execute_turn_without_game_over_check(g, player_id, action, data, verdict, timed_out) ==
    IF player_id \notin Players \/ g.players[player_id].status # "ALIVE"
    THEN [g |-> g, result |-> Result("none", FALSE, "Player is not active"),
          raised |-> "none", recorded |-> FALSE]
    ELSE IF timed_out
    THEN [g |-> timeout_elimination(g, player_id).g,
          result |-> timeout_elimination(g, player_id).result,
          raised |-> "none", recorded |-> FALSE]
    ELSE IF ~validate_action(verdict).legal
    THEN [g |-> g, result |-> Result("none", FALSE, "Illegal move blocked by Green Agent"),
          raised |-> "none", recorded |-> FALSE]
    ELSE AfterAction(_execute_action(g, player_id, action, data), player_id, action)


\* execute_turn as a function of the match and its inputs: the match after
\* the call, what it returned or raised, and whether the turn was recorded
\* (action_history.append, turn_number += 1)
execute_turn(g, player_id, action, data, verdict, timed_out) ==
    IF g.game_over
    THEN [g |-> g, result |-> Result("none", FALSE, "Game is over"),
          raised |-> "none", recorded |-> FALSE]
    ELSE IF player_id \notin Players \/ g.players[player_id].status # "ALIVE"
    THEN [g |-> g, result |-> Result("none", FALSE, "Player is not active"),
          raised |-> "none", recorded |-> FALSE]
    ELSE IF timed_out
    THEN [g |-> timeout_elimination(g, player_id).g,
          result |-> timeout_elimination(g, player_id).result,
          raised |-> "none", recorded |-> FALSE]
    ELSE IF ~validate_action(verdict).legal
    THEN \* (the dict also echoes the requested action; the echo is not kept)
         [g |-> g, result |-> Result("none", FALSE, "Illegal move blocked by Green Agent"),
          raised |-> "none", recorded |-> FALSE]
    ELSE AfterAction(_execute_action(g, player_id, action, data), player_id, action)

\* get_game_state reads the match and changes nothing; the model keeps of it
\* whether it returns ("none") or raises: 'status': p['status'].value raises
\* AttributeError on a status that is a str
get_game_state(g) ==
    IF \E pid \in Players : g.players[pid].status = "eliminated"
    THEN "AttributeError"
    ELSE "none"

\* score_player of _rank_on_timeout, in 200ths (ctf_progress is counted in
\* hundredths): 3.0 progress + 2.0 territories + 1.0 seen_tiles + 0.5 energy
\* + 1.0 kills - 0.5 _bad_moves
score_player(g, pid) ==
    LET p == g.players[pid]
    IN  6 * p.ctf_progress + 400 * Cardinality(p.territories)
            + 200 * Cardinality(p.seen_tiles) + 100 * p.energy
            + 200 * p.kills - 100 * p._bad_moves

\* max(alive_players, key=score_player) scanning the ids from pid on, best
\* being the maximum so far (None before the first ALIVE participant): a
\* later participant replaces it only with a strictly greater score
RECURSIVE MaxFrom(_, _, _)
MaxFrom(g, pid, best) ==
    IF pid > NumPlayers THEN best
    ELSE IF g.players[pid].status = "ALIVE"
            /\ (best = None \/ score_player(g, pid) > score_player(g, best))
         THEN MaxFrom(g, pid + 1, pid)
         ELSE MaxFrom(g, pid + 1, best)

\* the same scan where a later participant with an equal score replaces best
RECURSIVE MaxFromLast(_, _, _)
MaxFromLast(g, pid, best) ==
    IF pid > NumPlayers THEN best
    ELSE IF g.players[pid].status = "ALIVE"
            /\ (best = None \/ score_player(g, pid) >= score_player(g, best))
         THEN MaxFromLast(g, pid + 1, pid)
         ELSE MaxFromLast(g, pid + 1, best)

_rank_on_timeout_last_of_equals(g) == MaxFromLast(g, 1, None)

\* _rank_on_timeout: the winner's id, None when nobody is ALIVE.  It reads
\* the match and assigns nothing.
_rank_on_timeout(g) == MaxFrom(g, 1, None)

(***************************************************************************)
(* Inputs                                                                  *)
(***************************************************************************)
Verdicts == {"legal", "illegal", "error"}

\* random.uniform(5, 15), in hundredths: the two ends of the interval
BaseGains == {500, 1500}

\* the six coordinates around pos, cells of the board or not
Around(pos) == {<<pos[1] + directions[i][1], pos[2] + directions[i][2]>> : i \in 1..6}

\* MOVE targets: every neighbouring cell, one neighbouring coordinate off the
\* board (when there is one), pos itself (not adjacent), and no target at all
MoveTargets(pos) ==
    LET off == Around(pos) \ Cells
    IN  (Around(pos) \cap Cells)
            \cup (IF off = {} THEN {} ELSE {CHOOSE c \in off : TRUE})
            \cup {pos, <<>>}

Inputs(player_id, action) ==
    CASE action = "move" ->
            {[NoData EXCEPT !.target = t] : t \in MoveTargets(players[player_id].position)}
      [] action \in {"attack_player"} ->
            {[NoData EXCEPT !.target_player = t] : t \in Players \ {player_id}}
      [] action = "steal_progress" ->
            {[NoData EXCEPT !.target_player = t, !.coin = c] :
                t \in Players \ {player_id}, c \in BOOLEAN}
      [] action = "solve_ctf" ->
            {[NoData EXCEPT !.flag = "wrong", !.gain = gn] : gn \in BaseGains}
                \cup {NoData, [NoData EXCEPT !.flag = "correct"]}
      [] OTHER -> {NoData}

(***************************************************************************)
(* Openings: scripted first turns of a match, each resolved with a legal   *)
(* verdict, after which play is free.  They bring the match to states that *)
(* free play from construction reaches only after many turns.              *)
(***************************************************************************)
Turn(player_id, action, data) == [player_id |-> player_id, action |-> action, data |-> data]

\* a MOVE onto the mover's own spawn cell: its target is not adjacent
Stay(player_id) ==
    Turn(player_id, "move", [NoData EXCEPT !.target = spawn_positions[player_id]])

\* a SOLVE_CTF with a wrong flag and the smallest base gain
Guess(player_id) ==
    Turn(player_id, "solve_ctf", [NoData EXCEPT !.flag = "wrong", !.gain = 500])

\* seq repeated n times
RECURSIVE Rep(_, _)
Rep(seq, n) == IF n = 0 THEN <<>> ELSE seq \o Rep(seq, n - 1)

\* participant 1 attacks participant 2, its neighbour at the spawn cells
Hit == Turn(1, "attack_player", [NoData EXCEPT !.target_player = 2])

\* participant 2 claims its cell and guesses once (energy 7, some progress),
\* participant 1 claims its cell (a REST then recovers 4), then 49 attacks of
\* 2 damage each leave participant 2 at health 2: the first three steal
\* energy 3, 3 and 1, and from then on participant 1 alternates between
\* energy 7 and 3, resting only below 4 as a second REST in a row at 4 or
\* more is converted to a MOVE
Duel ==
    <<Turn(2, "claim_territory", NoData), Guess(2), Turn(1, "claim_territory", NoData)>>
        \o Rep(<<Hit>>, 4)
        \o Rep(<<Turn(1, "rest", NoData), Hit>>, 45)
        \o <<Turn(1, "rest", NoData)>>

\* a MOVE of player_id to target
Go(player_id, target) == Turn(player_id, "move", [NoData EXCEPT !.target = target])

\* participant 1 claims its spawn cell and the cell next to it and returns,
\* participant 2 claims its spawn cell, participant 3 claims the centre:
\* every cell around participant 1 is owned and the nearest unowned cell is
\* two steps away
Enclosure ==
    <<Turn(1, "claim_territory", NoData), Go(1, <<-1, 0>>),
      Turn(1, "claim_territory", NoData), Go(1, spawn_positions[1]),
      Turn(2, "claim_territory", NoData),
      Go(3, <<0, 0>>), Turn(3, "claim_territory", NoData)>>

\* a SOLVE_CTF with a wrong flag and the largest base gain
GuessHigh(player_id) ==
    Turn(player_id, "solve_ctf", [NoData EXCEPT !.flag = "wrong", !.gain = 1500])

\* participant 2 claims its cell and guesses its way to progress 50 and the
\* hints 1 and 2; participant 1 claims its cell, guesses once (no hint),
\* and brings participant 2 down to health 50 with 25 attacks, resting at
\* energy 3 in between (an illegal MOVE takes it from 4 to 3); then it
\* steals from participant 2, the coin giving it participant 2's last hint
Heist ==
    <<Turn(2, "claim_territory", NoData), GuessHigh(2), GuessHigh(2),
      Turn(2, "rest", NoData), GuessHigh(2),
      Turn(1, "claim_territory", NoData), GuessHigh(1), Hit, Stay(1)>>
        \o Rep(<<Turn(1, "rest", NoData), Hit>>, 24)
        \o <<Turn(1, "rest", NoData),
             Turn(1, "steal_progress", [NoData EXCEPT !.target_player = 2, !.coin = TRUE])>>

\* after the Duel participant 1 kills participant 2, whose cell is released,
\* walks onto that cell and claims it
Succession ==
    Duel \o <<Hit, Turn(1, "rest", NoData), Go(1, spawn_positions[2]),
              Turn(1, "claim_territory", NoData)>>

Openings ==
    << \* free play from construction
       <<>>,
       \* participant 1 strikes out, participant 2 has two strikes
       <<Stay(1), Stay(1), Stay(1), Stay(2), Stay(2)>>,
       \* participant 1 spends down to energy 2 with an idle streak of 2:
       \* 15 -5 -5 -3, then a CLAIM_TERRITORY it can no longer pay for
       <<Guess(1), Guess(1), Turn(1, "claim_territory", NoData),
         Turn(1, "claim_territory", NoData)>>,
       \* participant 2 is one attack away from being killed
       Duel,
       \* participant 1 stands on its own cell among owned cells
       Enclosure,
       \* participant 1 holds a hint stolen from participant 2
       Heist,
       \* participant 1 owns the cell an eliminated participant had claimed
       Succession >>

OpeningDone == turn_number >= Len(Openings[scenario])

(***************************************************************************)
(* Actions                                                                 *)
(***************************************************************************)
NoResult == Outcome("none", Result("none", FALSE, "none"), "none")

\* Agent.run before it is called: pc is its position, round_num the loop
\* variable, queue what is left of the round's get_alive_players(),
\* participants the ids config["participants"] gives an endpoint, error the
\* exception that ended the run
NotRunning == [pc |-> "idle", round_num |-> 0, queue |-> <<>>, participants |-> {}, error |-> "none"]

Init ==
    /\ hexagons \in Boards
    /\ players = _initialize_players
    /\ game_over = FALSE
    /\ winner = None
    /\ round_number = 0
    /\ turn_number = 0
    /\ action_history = [len |-> 0, last |-> <<>>]
    /\ start_time = "None"
    /\ time_up = FALSE
    /\ result = NoResult
    /\ scenario \in DOMAIN Openings
    /\ run = NotRunning

start_game ==
    /\ start_time = "None"
    /\ start_time' = "set"
    /\ game_over' = FALSE
    /\ UNCHANGED <<players, hexagons, winner, round_number, turn_number, action_history,
                   time_up, result, scenario, run>>

\* the wall clock passes max_time
TimePasses ==
    /\ start_time # "None"
    /\ ~time_up
    /\ OpeningDone
    /\ turn_number <= Len(Openings[scenario]) + MaxLateTurn
    /\ time_up' = TRUE
    /\ UNCHANGED <<engine, start_time, result, scenario, run>>

\* one call of execute_turn
Apply(player_id, action, data, verdict) ==
    \E t \in {execute_turn(Game, player_id, action, data, verdict, time_up)} :
    LET executed_action == IF t.result.action # "none" THEN t.result.action ELSE action
    IN  /\ players' = t.g.players
        /\ hexagons' = t.g.hexagons
        /\ game_over' = t.g.game_over
        /\ winner' = t.g.winner
        /\ turn_number' = IF t.recorded THEN turn_number + 1 ELSE turn_number
        /\ action_history' =
                IF t.recorded
                THEN [len |-> action_history.len + 1,
                      last |-> <<round_number, turn_number, player_id, executed_action>>]
                ELSE action_history
        /\ result' = Outcome("execute_turn", t.result, t.raised)
        /\ UNCHANGED <<round_number, start_time, time_up, scenario, run>>

ExecuteTurn(player_id, action, data, verdict) ==
    /\ start_time # "None"
    /\ OpeningDone
    /\ turn_number < Len(Openings[scenario]) + MaxTurns
    /\ Apply(player_id, action, data, verdict)

OpeningTurn ==
    /\ start_time # "None"
    /\ ~OpeningDone
    /\ LET t == Openings[scenario][turn_number + 1]
       IN  Apply(t.player_id, t.action, t.data, "legal")

\* the driver of the match closes a round: the engine has no operation for
\* it, the round loop writes `self.game.round_number = round_num`.  Rounds
\* are closed during the first MaxRoundTurn turns of a match.
RoundAdvance ==
    /\ start_time # "None"
    /\ OpeningDone
    /\ turn_number <= MaxRoundTurn
    /\ round_number < MaxRoundNumber
    /\ round_number' = round_number + 1
    /\ UNCHANGED <<players, hexagons, game_over, winner, turn_number, action_history,
                   start_time, time_up, result, scenario, run>>

Next ==
    \/ start_game
    \/ TimePasses
    \/ OpeningTurn
    \/ RoundAdvance
    \/ \E player_id \in Players, action \in ActionType, verdict \in Verdicts :
            \E data \in Inputs(player_id, action) :
                ExecuteTurn(player_id, action, data, verdict)

Spec == Init /\ [][Next]_vars

(***************************************************************************)
(* Agent.run (src/src/agent.py): the round loop                            *)
(***************************************************************************)
\* the ids of a set in ascending order, as get_alive_players lists them
RECURSIVE Ascending(_)
Ascending(S) ==
    IF S = {} THEN <<>>
    ELSE LET m == CHOOSE x \in S : \A y \in S : x <= y
         IN  <<m>> \o Ascending(S \ {m})

\* lines 31-49: read the config, construct the game, start_game()
RunBegin ==
    /\ run.pc = "idle"
    /\ start_time = "None"
    /\ \E participants \in SUBSET Players :
            run' = [NotRunning EXCEPT !.pc = "round", !.round_num = 1,
                                      !.participants = participants]
    /\ start_time' = "set"
    /\ game_over' = FALSE
    /\ UNCHANGED <<players, hexagons, winner, round_number, turn_number, action_history,
                   time_up, result, scenario>>

\* lines 52-63: the head of `for round_num in range(1, 21)`
RoundBegin ==
    /\ run.pc = "round"
    /\ run' = IF run.round_num > MaxRounds \/ game_over
              THEN [run EXCEPT !.pc = "finalize"]
              ELSE [run EXCEPT !.pc = "turns", !.queue = Ascending(get_alive_players(Game))]
    /\ UNCHANGED <<engine, start_time, time_up, result, scenario>>

\* lines 63-67: a participant without an endpoint is skipped
SkipPlayer ==
    /\ run.pc = "turns"
    /\ run.queue # <<>>
    /\ Head(run.queue) \notin run.participants
    /\ run' = [run EXCEPT !.queue = Tail(run.queue)]
    /\ UNCHANGED <<engine, start_time, time_up, result, scenario>>

\* lines 69-90: a participant with an endpoint.  get_game_state() is called
\* outside the try.  Inside it, either talk_to_agent or json.loads raises, or
\* the call of execute_turn evaluates ActionType(...), a name agent.py never
\* imports: a NameError before execute_turn is entered.  Each of them reaches
\* the except clause, whose logger.error(...) uses a name agent.py never
\* defines: the NameError leaves run().
PlayerTurn ==
    /\ run.pc = "turns"
    /\ run.queue # <<>>
    /\ Head(run.queue) \in run.participants
    /\ run' = [run EXCEPT !.pc = "crashed",
                          !.error = IF get_game_state(Game) # "none"
                                    THEN get_game_state(Game) ELSE "NameError"]
    /\ UNCHANGED <<engine, start_time, time_up, result, scenario>>

\* lines 92-94: log_round, self.game.round_number = round_num
RoundEnd ==
    /\ run.pc = "turns"
    /\ run.queue = <<>>
    /\ round_number' = run.round_num
    /\ run' = [run EXCEPT !.pc = "round", !.round_num = run.round_num + 1]
    /\ UNCHANGED <<players, hexagons, game_over, winner, turn_number, action_history,
                   start_time, time_up, result, scenario>>

\* line 97: self.game.check_winner(), a method CTFHungerGame does not have
Finalize ==
    /\ run.pc = "finalize"
    /\ run' = [run EXCEPT !.pc = "crashed", !.error = "AttributeError"]
    /\ UNCHANGED <<engine, start_time, time_up, result, scenario>>

(***************************************************************************)
(* The nearest-unowned search on every board: a match in which participant *)
(* 2 owns any set of cells and participant 1 stands on any cell, from where *)
(* participant 1 takes the turns that can end in a stall auto-conversion.   *)
(***************************************************************************)
\* the energy participant 1 has on that cell: all of it, or what two SCOUTs
\* cost
SearchEnergies == {15, 4}

InitSearch ==
    \E owned \in SUBSET Cells, start \in Cells, energy \in SearchEnergies :
        /\ hexagons = [c \in Cells |->
                        [NewHex("NORMAL") EXCEPT !.owner = IF c \in owned THEN 2 ELSE None]]
        /\ players = [_initialize_players EXCEPT
                        ![1].position = start,
                        ![1].energy = energy,
                        ![2].territories = owned,
                        ![2].territory_income = Cardinality(owned)]
        /\ game_over = FALSE
        /\ winner = None
        /\ round_number = 0
        /\ turn_number = 0
        /\ action_history = [len |-> 0, last |-> <<>>]
        /\ start_time = "set"
        /\ time_up = FALSE
        /\ result = NoResult
        /\ scenario = 1
        /\ run = NotRunning

SearchTurn ==
    /\ turn_number < MaxSearchTurns
    /\ \E action \in {"claim_territory", "rest", "scout"} : Apply(1, action, NoData, "legal")

NextSearch == SearchTurn

SpecSearch == InitSearch /\ [][NextSearch]_vars


NextRun ==
    \/ RunBegin
    \/ RoundBegin
    \/ SkipPlayer
    \/ PlayerTurn
    \/ RoundEnd
    \/ Finalize

SpecRun == Init /\ [][NextRun]_vars

(***************************************************************************)
(* Properties                                                              *)
(***************************************************************************)
\* the status a stored value stands for: _action_move stores
\* PlayerStatus.ELIMINATED.value, the str 'eliminated'
StatusOf(st) == IF st = "eliminated" THEN "ELIMINATED" ELSE st

AliveCount == Cardinality(get_alive_players(Game))

\* C1: after every execute_turn, every participant's energy is >= 0
C1_EnergyNeverNegative ==
    \A pid \in Players : players[pid].energy >= 0

\* C2: a participant whose energy an action left at exactly 0 is ELIMINATED
\* when the same execute_turn is over
C2_ZeroEnergyEliminated ==
    \A pid \in Players : players[pid].energy = 0 => StatusOf(players[pid].status) = "ELIMINATED"

\* C3: execute_turn always ends in a structured outcome and get_game_state
\* always returns a view: neither raises
C3_NoUnhandledError ==
    /\ result.raised = "none"
    /\ get_game_state(Game) = "none"

\* C4: in every state, an execute_turn for a participant whose status is not
\* ALIVE is rejected, whatever the action, payload, verdict and clock, and
\* leaves participants, board, winner and matchOver as they are and records no
\* turn (no turn counter step, no action-history entry)
C4_InactiveTurnRejected ==
    \A pid \in Players : players[pid].status # "ALIVE" =>
        \A action \in ActionType, verdict \in Verdicts, timed_out \in BOOLEAN :
            \A data \in Inputs(pid, action) :
                \A t \in {execute_turn(Game, pid, action, data, verdict, timed_out)} :
                    /\ t.g = Game
                    /\ ~t.recorded
                    /\ t.raised = "none"
                    /\ ~t.result.success
                    /\ t.result.error \in {"Player is not active", "Game is over"}

\* a turn was issued for a participant that is out while the match goes on
C4_Witness ==
    /\ result.call = "execute_turn"
    /\ result.error = "Player is not active"
    /\ ~game_over
    /\ \E pid \in Players : players[pid].status # "ALIVE"

\* C5: no board cell is owned by a participant whose status is ELIMINATED
C5_NoCellOfEliminated ==
    \A c \in Cells :
        hexagons[c].owner # None => StatusOf(players[hexagons[c].owner].status) # "ELIMINATED"

\* C6: a status only changes from ALIVE, and then to ELIMINATED, WINNER or
\* LOST_TIMEOUT; a terminal status never changes
C6_StatusOnlyLeavesAlive ==
    [][\A pid \in Players :
          StatusOf(players'[pid].status) # StatusOf(players[pid].status) =>
              /\ players[pid].status = "ALIVE"
              /\ StatusOf(players'[pid].status) \in {"ELIMINATED", "WINNER", "LOST_TIMEOUT"}]_vars

\* a participant that struck out is still out after a winner has been declared
C6_Witness ==
    /\ \E pid \in Players : players[pid].status = "eliminated"
    /\ \E pid \in Players : players[pid].status = "WINNER"
    /\ \E pid \in Players : players[pid].status = "ELIMINATED"

\* C7: at most one participant is WINNER, and when one is, winner names it
\* and game_over is true
C7_WinnerUnique ==
    /\ Cardinality({pid \in Players : players[pid].status = "WINNER"}) <= 1
    /\ \A pid \in Players : players[pid].status = "WINNER" => winner = pid /\ game_over

\* a winner has been declared
C7_Witness ==
    /\ \E pid \in Players : players[pid].status = "WINNER"
    /\ result.call = "execute_turn"

\* C8: when the match has ended (game_over, or Agent.run has left its round
\* loop with the 20 rounds used up) no participant is ALIVE
C8_NoneAliveAtEnd ==
    (game_over \/ (run.pc \in {"finalize", "crashed"} /\ run.round_num > MaxRounds))
        => AliveCount = 0

\* C9: when an execute_turn has returned, it is not the case that exactly one
\* participant is ALIVE and the match is not over; and with nobody ALIVE and
\* nobody WINNER the match is over without a winner
C9_LastSurvivorWins ==
    (result.call = "execute_turn" /\ result.raised = "none") =>
        /\ ~(AliveCount = 1 /\ ~game_over)
        /\ (AliveCount = 0 /\ ~\E pid \in Players : players[pid].status = "WINNER")
                => (game_over /\ winner = None)

\* C10: a MOVE that reaches its resolver (match running, mover ALIVE, legal
\* verdict, energy >= the cost of a MOVE) with a target that is not adjacent
\* or not a cell is rejected: position unchanged, energy less by exactly 1 and
\* not below 0, strikes more by exactly 1, board and other participants
\* unchanged
C10_BadMoveRejected ==
    \A pid \in Players :
        (~game_over /\ players[pid].status = "ALIVE"
                /\ players[pid].energy >= _get_action_cost("move")) =>
            \A target \in {c \in MoveTargets(players[pid].position) :
                            c # <<>> /\ (c \notin Cells \/ ~_is_adjacent(players[pid].position, c))} :
                \A t \in {execute_turn(Game, pid, "move", [NoData EXCEPT !.target = target],
                                       "legal", FALSE)} :
                    /\ t.raised = "none"
                    /\ ~t.result.success
                    /\ t.g.players[pid].position = players[pid].position
                    /\ t.g.players[pid].energy = Max(0, players[pid].energy - 1)
                    /\ t.g.players[pid]._bad_moves = players[pid]._bad_moves + 1
                    /\ t.g.hexagons = hexagons
                    /\ \A other \in Players \ {pid} : t.g.players[other] = players[other]

\* the MOVE targets of a participant at pos that reach the move itself:
\* adjacent cells of the board
GoodTargets(pos) == {c \in Cells : _is_adjacent(pos, c)}

\* C11: a participant at 3 strikes is ELIMINATED in the step of its third
\* illegal MOVE and from then on is not alive for turn dispatch
\* (execute_turn), win detection (get_alive_players) and state export
\* (get_game_state returns); the strike rule eliminates nobody below 3
\* strikes, and a successful MOVE resets the strikes to 0
C11_ThreeStrikesOut ==
    \A pid \in Players :
        /\ players[pid]._bad_moves >= 3 =>
                /\ StatusOf(players[pid].status) = "ELIMINATED"
                /\ pid \notin get_alive_players(Game)
                /\ execute_turn(Game, pid, "rest", NoData, "legal", FALSE).g = Game
                /\ get_game_state(Game) = "none"
        /\ players[pid].alive = "False" => players[pid]._bad_moves >= 3
        /\ players[pid].energy >= _get_action_cost("move") =>
                \A target \in GoodTargets(players[pid].position) :
                    _action_move(Game, pid, [NoData EXCEPT !.target = target])
                        .g.players[pid]._bad_moves = 0

\* the match after a MOVE of pid onto target
Moved(pid, target) == _action_move(Game, pid, [NoData EXCEPT !.target = target]).g

\* C12: the one-time bonus of a RESOURCE cell.  A MOVE onto a cell whose bonus
\* is consumed costs the full 2 and grants nothing; a MOVE onto a cell whose
\* bonus is not consumed grants +3 (capped at max_energy) and consumes it;
\* and no step resets a consumed flag: a flag is set only in a step whose
\* outcome is a successful move that put a participant on the cell
C12_BonusOnlyHere(pid, c) ==
    LET after == Moved(pid, c)
    IN  IF hexagons[c].type = "RESOURCE" /\ ~hexagons[c].bonus_consumed
        THEN /\ after.players[pid].energy
                    = Min(players[pid].max_energy, players[pid].energy - 2 + 3)
             /\ after.hexagons[c].bonus_consumed
        ELSE /\ after.players[pid].energy = players[pid].energy - 2
             /\ after.hexagons = hexagons

C12_MoveBonus ==
    \A pid \in Players :
        players[pid].energy >= 2 =>
            \A c \in GoodTargets(players[pid].position) : C12_BonusOnlyHere(pid, c)

C12_FlagStep ==
    \A c \in Cells :
        /\ hexagons[c].bonus_consumed => hexagons'[c].bonus_consumed
        /\ ~hexagons[c].bonus_consumed /\ hexagons'[c].bonus_consumed =>
                /\ hexagons[c].type = "RESOURCE"
                /\ result'.action \in {"move", "auto_move"} /\ result'.success
                /\ \E pid \in Players :
                        players[pid].position # c /\ players'[pid].position = c

C12_BonusOnce == []C12_MoveBonus /\ [][C12_FlagStep]_vars

\* a participant has moved onto a RESOURCE cell where another participant,
\* who consumed the bonus, stands: it paid 2 of its 15 and got nothing back
C12_Witness ==
    /\ result.action = "move" /\ result.success
    /\ \E c \in Cells : \E p, q \in Players :
            /\ p # q
            /\ hexagons[c].type = "RESOURCE" /\ hexagons[c].bonus_consumed
            /\ players[p].position = c /\ players[q].position = c
            /\ players[p].energy = 15 /\ players[q].energy = 13

\* the actions the cost table prices above 0, STEAL_PROGRESS aside
PricedActions == {"move", "attack_player", "solve_ctf", "claim_territory", "scout", "defend"}

\* C13: a turn of an ALIVE participant whose energy is below the positive cost
\* of its action is rejected with "Insufficient energy" and leaves the whole
\* match as it was (energy, position, strikes, idle streak, status, the other
\* participants, the board); a REST is never rejected for lack of energy
C13_RejectedTurnChangesNothing ==
    \A pid \in Players :
        ~game_over /\ players[pid].status = "ALIVE" =>
            /\ \A action \in PricedActions :
                    players[pid].energy < _get_action_cost(action) =>
                        \A data \in Inputs(pid, action) :
                            \A t \in {execute_turn(Game, pid, action, data, "legal", FALSE)} :
                                /\ ~t.result.success
                                /\ t.result.error = "Insufficient energy"
                                /\ t.g = Game
            /\ execute_turn(Game, pid, "rest", NoData, "legal", FALSE).result.error
                    # "Insufficient energy"

\* the turn in which pid attacks target_id, resolved with a legal verdict
Attack(pid, target_id) ==
    execute_turn(Game, pid, "attack_player", [NoData EXCEPT !.target_player = target_id],
                 "legal", FALSE)

\* pid may attack target_id and the attack gets through: both ALIVE, on
\* adjacent cells, the target not defending, the attacker with energy >= 4
AttackLands(pid, target_id) ==
    /\ ~game_over
    /\ pid # target_id
    /\ players[pid].status = "ALIVE" /\ players[target_id].status = "ALIVE"
    /\ _is_adjacent(players[pid].position, players[target_id].position)
    /\ ~players[target_id].defending
    /\ players[pid].energy >= 4

\* C14: an ATTACK that lands costs the attacker 4, takes
\* max(0, attack_power - shield before - defense_power) off the target's
\* health and attack_power off its shield (floored at 0), and, only when the
\* health damage is positive, moves min(3, target energy) from the target to
\* the attacker (capped at max_energy)
C14_Arithmetic(pid, target_id, after) ==
    LET damage == Max(0, players[pid].attack_power - players[target_id].shield
                            - players[target_id].defense_power)
        stolen == IF damage > 0 THEN Min(3, players[target_id].energy) ELSE 0
    IN  /\ after[target_id].health = players[target_id].health - damage
        /\ after[target_id].shield = Max(0, players[target_id].shield - players[pid].attack_power)
        /\ after[target_id].energy = players[target_id].energy - stolen
        /\ after[pid].energy = Min(players[pid].max_energy, players[pid].energy - 4 + stolen)

C14_AttackArithmetic ==
    \A pid, target_id \in Players :
        AttackLands(pid, target_id) =>
            C14_Arithmetic(pid, target_id, Attack(pid, target_id).g.players)

\* the first turn of a match is participant 1's attack on participant 2:
\* health 98, energy 12 for the target, 15 - 4 + 3 for the attacker
C14_Witness ==
    /\ turn_number = 1
    /\ result.action = "attack_player" /\ result.success
    /\ players[2].health = 98 /\ players[2].energy = 12 /\ players[2].shield = 0
    /\ players[1].energy = 14

\* pid may attack target_id and finds it defending: both ALIVE, on adjacent
\* cells, the attacker with energy >= 4
AttackBlocked(pid, target_id) ==
    /\ ~game_over
    /\ pid # target_id
    /\ players[pid].status = "ALIVE" /\ players[target_id].status = "ALIVE"
    /\ _is_adjacent(players[pid].position, players[target_id].position)
    /\ players[target_id].defending
    /\ players[pid].energy >= 4

\* C15: an ATTACK on a defending target is blocked: the target's health,
\* shield and energy are unchanged and its defending flag stays set, and the
\* attacker has paid the 4-energy cost of the ATTACK
C15_BlockedAttackStillCosts ==
    \A pid, target_id \in Players :
        AttackBlocked(pid, target_id) =>
            \A t \in {Attack(pid, target_id)} :
                /\ ~t.result.success
                /\ t.g.players[target_id].health = players[target_id].health
                /\ t.g.players[target_id].shield = players[target_id].shield
                /\ t.g.players[target_id].energy = players[target_id].energy
                /\ t.g.players[target_id].defending
                /\ t.g.players[pid].energy = players[pid].energy - 4

\* C16: DEFEND costs 2 energy and sets the defending flag, and the flag lasts
\* only for the rest of the round: in the state that starts a round (the
\* step that advanced round_number has been taken, no action of the round
\* yet) every participant's defending flag is false, so that no DEFEND of an
\* earlier round can block an ATTACK of this one
C16_DefendCostsTwo ==
    \A pid \in Players :
        players[pid].energy >= _get_action_cost("defend") =>
            \A x \in {_execute_action(Game, pid, "defend", NoData)} :
                /\ x.g.players[pid].energy = players[pid].energy - 2
                /\ x.g.players[pid].defending

C16_RoundStartsUndefended ==
    round_number' # round_number => \A pid \in Players : ~players'[pid].defending

C16_DefendLastsOneRound == []C16_DefendCostsTwo /\ [][C16_RoundStartsUndefended]_vars

\* the health an ATTACK of pid leaves target_id with
HealthLeft(pid, target_id) ==
    players[target_id].health
        - Max(0, players[pid].attack_power - players[target_id].shield
                    - players[target_id].defense_power)

\* 30% of a progress, progress being counted in hundredths
Share(progress) == (progress * 3) \div 10

\* C17: an ATTACK that brings the target's health to 0 or below makes the
\* target ELIMINATED in the same action, raises the attacker's kills by
\* exactly 1 and its progress by 30% of the target's progress, capped at 100
\* (10000 hundredths); and kills change in no other step: whenever a kill
\* count changes it grows by 1, in a successful attack that eliminated a
\* participant whose health is at or below 0
C17_Kill ==
    \A pid, target_id \in Players :
        AttackLands(pid, target_id) /\ HealthLeft(pid, target_id) <= 0 =>
            \A t \in {Attack(pid, target_id)} :
                /\ t.g.players[target_id].status = "ELIMINATED"
                /\ t.g.players[pid].kills = players[pid].kills + 1
                /\ t.g.players[pid].ctf_progress =
                        Min(10000, players[pid].ctf_progress
                                    + Share(players[target_id].ctf_progress))
                /\ \A other \in Players \ {pid} :
                        t.g.players[other].kills = players[other].kills

C17_KillsStep ==
    \A pid \in Players :
        players'[pid].kills # players[pid].kills =>
            /\ players'[pid].kills = players[pid].kills + 1
            /\ result'.call = "execute_turn"
            /\ result'.action = "attack_player" /\ result'.success
            /\ action_history'.last[3] = pid
            /\ \E target_id \in Players \ {pid} :
                    /\ players[target_id].status = "ALIVE"
                    /\ players'[target_id].status = "ELIMINATED"
                    /\ players'[target_id].health <= 0

C17_KillCredit == []C17_Kill /\ [][C17_KillsStep]_vars

\* participant 1 has killed participant 2, whose progress was 8.50: a kill
\* and 2.55 more progress for participant 1
C17_Witness ==
    /\ result.action = "attack_player" /\ result.success
    /\ players[2].status = "ELIMINATED" /\ players[2].health <= 0
    /\ players[2].ctf_progress = 850
    /\ players[1].kills = 1 /\ players[1].ctf_progress = 255

\* the turn in which pid submits the accepted flag, resolved with a legal
\* verdict before the clock has run out
Solve(pid) ==
    execute_turn(Game, pid, "solve_ctf", [NoData EXCEPT !.flag = "correct"], "legal", FALSE)

\* C18: a SOLVE_CTF with the accepted flag by an ALIVE participant with
\* energy >= 5 ends the match in that step: game_over is true, winner is the
\* solver, the solver is WINNER when the call ends and no other participant
\* is ALIVE, whatever their health, energy or progress.  (At energy exactly
\* 5 the call ends by the KeyError of the post-action check; the match is
\* left as stated in that case too.)
C18_CorrectFlagWins ==
    \A pid \in Players :
        ~game_over /\ players[pid].status = "ALIVE" /\ players[pid].energy >= 5 =>
            \A t \in {Solve(pid)} :
                /\ t.g.game_over
                /\ t.g.winner = pid
                /\ t.g.players[pid].status = "WINNER"
                /\ \A other \in Players \ {pid} : t.g.players[other].status # "ALIVE"
                /\ t.raised = "none" => t.result.action = "solve_ctf" /\ t.result.success

\* a participant has won by its flag while another, untouched at full
\* health and energy, was ALIVE: that one is ELIMINATED now
C18_Witness ==
    /\ result.call = "execute_turn" /\ result.action = "solve_ctf" /\ result.success
    /\ game_over
    /\ winner # None /\ players[winner].status = "WINNER"
    /\ \E other \in Players \ {winner} :
            /\ players[other].status = "ELIMINATED"
            /\ players[other].health = 100 /\ players[other].energy = 15

\* the unowned cells other than pos, and how far the nearest of them is
Unowned(pos) == {c \in Cells \ {pos} : hexagons[c].owner = None}
Nearest(pos) == CHOOSE d \in 0..(2 * board_radius) :
                    /\ \E c \in Unowned(pos) : _hex_distance(pos, c) = d
                    /\ \A c \in Unowned(pos) : _hex_distance(pos, c) >= d

\* pid stands on a cell it owns while some other cell is unowned
OnOwnCell(pid) ==
    /\ \/ hexagons[players[pid].position].owner = pid
       \/ players[pid].position \in players[pid].territories
    /\ Unowned(players[pid].position) # {}

\* what C19 says of the match x a CLAIM_TERRITORY of pid was resolved to: a
\* MOVE of one step that brings pid one step nearer to a nearest unowned
\* cell (onto it at distance 1), for the 2 energy of a MOVE (with the bonus
\* of a RESOURCE cell not yet consumed, as for every MOVE), no territory
\* added, reported as 'auto_move' with original_action 'claim_territory'
C19_Converted(pid, x) ==
    LET pos == players[pid].position
        to == x.g.players[pid].position
        bonus == hexagons[to].type = "RESOURCE" /\ ~hexagons[to].bonus_consumed
    IN  /\ x.raised = "none"
        /\ x.result.action = "auto_move" /\ x.result.success
        /\ x.result.original_action = "claim_territory"
        /\ _is_adjacent(pos, to)
        /\ \E c \in Unowned(pos) :
                /\ _hex_distance(pos, c) = Nearest(pos)
                /\ _hex_distance(to, c) = Nearest(pos) - 1
        /\ x.g.players[pid].energy =
                IF bonus THEN Min(players[pid].max_energy, players[pid].energy - 2 + 3)
                ELSE players[pid].energy - 2
        /\ x.g.players[pid].territories = players[pid].territories
        /\ x.g.players[pid].territory_income = players[pid].territory_income
        /\ \A c \in Cells : x.g.hexagons[c].owner = hexagons[c].owner

\* C19 as stated: a CLAIM_TERRITORY on a cell the participant owns, with
\* energy >= 2 and an unowned cell on the board, is resolved as that MOVE
C19_OwnedClaimBecomesMove ==
    \A pid \in Players :
        OnOwnCell(pid) /\ players[pid].energy >= 2 =>
            C19_Converted(pid, _execute_action(Game, pid, "claim_territory", NoData))

\* C19 with the threshold the code has: the conversion needs the energy of
\* a CLAIM_TERRITORY, 3; at energy 2 the pre-check of _execute_action
\* rejects the turn before the conversion is looked at
C19_OwnedClaimBecomesMoveFromThree ==
    \A pid \in Players :
        OnOwnCell(pid) /\ players[pid].energy >= 3 =>
            C19_Converted(pid, _execute_action(Game, pid, "claim_territory", NoData))

\* a CLAIM_TERRITORY was converted where every cell around the participant
\* is owned: it stands on a cell next to its own, two steps from where the
\* nearest unowned cell was
C19_Witness ==
    /\ result.action = "auto_move" /\ result.original_action = "claim_territory"
    /\ result.success
    /\ scenario = 5
    /\ players[1].position # spawn_positions[1]
    /\ players[1].territories = {spawn_positions[1], <<-1, 0>>}
    /\ \A c \in Around(spawn_positions[1]) \cap Cells : hexagons[c].owner # None

\* the actions execute_turn counts as progress towards the objective
ObjectiveActions == {"solve_ctf", "attack_player", "steal_progress"}

\* C20, for the turn t of pid that _execute_action resolved to x: an action
\* that is not an objective action and succeeded leaves the idle streak 1
\* above its value before the turn, or, as the third in a row, at 0 with 2
\* energy deducted; an objective action leaves it at 0
C20_Streak(pid, action, x, t) ==
    LET third == players[pid].idle_streak + 1 >= 3
    IN  t.recorded =>
            IF action \in ObjectiveActions
            THEN t.g.players[pid].idle_streak = 0
            ELSE t.result.success =>
                    /\ t.g.players[pid].idle_streak =
                            IF third THEN 0 ELSE players[pid].idle_streak + 1
                    /\ t.g.players[pid].energy =
                            IF third THEN x.g.players[pid].energy - 2
                            ELSE x.g.players[pid].energy

C20_IdleStreakCounts ==
    \A pid \in Players :
        ~game_over /\ players[pid].status = "ALIVE" =>
            \A action \in ActionType :
                \A data \in Inputs(pid, action) :
                    C20_Streak(pid, action,
                               _execute_action(Game, pid, action, data),
                               execute_turn(Game, pid, action, data, "legal", FALSE))

\* the composite score of C21 in 200ths: 3 progress + 2 territories + explored
\* + 0.5 energy + kills - 0.5 strikes, progress being stored in hundredths
C21_Score(pid) ==
    6 * players[pid].ctf_progress
        + 100 * (4 * Cardinality(players[pid].territories)
                    + 2 * Cardinality(players[pid].seen_tiles)
                    + players[pid].energy
                    + 2 * players[pid].kills
                    - players[pid]._bad_moves)

\* C21: the timeout ranking of a match returns an ALIVE participant of
\* maximum composite score, the first in id order among those of maximum
\* score, and None when nobody is ALIVE
C21_RankingPicksFirstMaximum ==
    \A w \in {_rank_on_timeout(Game)} :
        IF get_alive_players(Game) = {}
        THEN w = None
        ELSE /\ w \in get_alive_players(Game)
             /\ \A pid \in get_alive_players(Game) :
                    /\ C21_Score(w) >= C21_Score(pid)
                    /\ C21_Score(w) = C21_Score(pid) => w <= pid

\* participants 2 and 3 are ALIVE with the same score, above participant
\* 1's, and the ranking returns participant 2
C21_Witness ==
    /\ get_alive_players(Game) = Players
    /\ C21_Score(2) = C21_Score(3)
    /\ C21_Score(1) < C21_Score(2)
    /\ _rank_on_timeout(Game) = 2

\* C22: a run of the round loop performs at most 20 rounds and, once it is
\* over, has left the match resolved: game_over is true, there is a winner
\* whose status is WINNER (by the timeout ranking when the rounds were used
\* up with two or more ALIVE), and every other participant that was ALIVE
\* has lost by the tiebreak (LOST_TIMEOUT), so that nobody is ALIVE
C22_RunEndsResolved ==
    /\ run.round_num <= MaxRounds + 1
    /\ run.pc = "crashed" =>
            /\ game_over
            /\ winner \in Players
            /\ players[winner].status = "WINNER"
            /\ \A pid \in Players \ {winner} :
                    players[pid].status \in {"LOST_TIMEOUT", "ELIMINATED"}

\* the outcome of a turn the judge blocked
Blocked == "Illegal move blocked by Green Agent"

\* C23, for one turn of pid: with the verdict illegal the turn is rejected
\* and the match is as before, nothing recorded; with the verdict legal, or
\* the judge failing, the turn is what _execute_action makes of it
C23_Turn(pid, action, data) ==
    \A x \in {_execute_action(Game, pid, action, data)} :
        /\ \A t \in {execute_turn(Game, pid, action, data, "illegal", FALSE)} :
                /\ t.result.error = Blocked /\ ~t.result.success
                /\ t.g = Game
                /\ ~t.recorded
        /\ \A verdict \in {"legal", "error"} :
                \A t \in {execute_turn(Game, pid, action, data, verdict, FALSE)} :
                    /\ t.result = x.result
                    /\ t.raised = x.raised
                    /\ t.recorded = (x.raised = "none")
                    /\ t.result.error # Blocked

C23_VerdictDecidesDispatch ==
    \A pid \in Players :
        ~game_over /\ players[pid].status = "ALIVE" =>
            \A action \in ActionType :
                \A data \in Inputs(pid, action) : C23_Turn(pid, action, data)

\* a step that ends in the judge's rejection changes no participant, no
\* cell, no counter and no history entry
C23_BlockedStep ==
    result'.error = Blocked =>
        UNCHANGED <<players, hexagons, game_over, winner, turn_number, action_history>>

C23_JudgeGatesTurns == []C23_VerdictDecidesDispatch /\ [][C23_BlockedStep]_vars

\* the second turn of a match was blocked by the judge: the match is as the
\* first turn left it
C23_Witness ==
    /\ result.call = "execute_turn" /\ result.error = Blocked
    /\ turn_number = 1 /\ action_history.len = 1
    /\ scenario = 1
    /\ \E pid \in Players : players[pid].idle_streak = 1

\* the coordinates a turn can name: the cells of the board and the ring
\* around it, where the off-board targets of a MOVE lie
Coordinates ==
    {c \in (-board_radius - 1..board_radius + 1) \X (-board_radius - 1..board_radius + 1) :
        Abs(-c[1] - c[2]) <= board_radius + 1}

\* C24: for every cell a a participant stands on and every coordinate b,
\* _is_adjacent holds between them (either way round) exactly when their
\* _hex_distance is 1, the distance is symmetric, and it is 0 exactly when
\* a = b
C24_AdjacencyIsDistanceOne ==
    \A a \in {players[pid].position : pid \in Players} : \A b \in Coordinates :
        /\ _is_adjacent(a, b) <=> (_hex_distance(a, b) = 1)
        /\ _is_adjacent(b, a) <=> (_hex_distance(b, a) = 1)
        /\ _hex_distance(a, b) = _hex_distance(b, a)
        /\ (_hex_distance(a, b) = 0) <=> (a = b)

\* a MOVE to a cell at distance 1 was accepted as adjacent after a MOVE to
\* the mover's own cell, at distance 0, was refused as not adjacent
C24_Witness ==
    /\ result.action = "move" /\ result.success
    /\ \E pid \in Players :
            /\ players[pid]._bad_moves = 0
            /\ _hex_distance(spawn_positions[pid], players[pid].position) = 1
            /\ _is_adjacent(spawn_positions[pid], players[pid].position)
    /\ \E pid \in Players :
            /\ players[pid]._bad_moves = 2
            /\ players[pid].position = spawn_positions[pid]

\* C25: whatever the random draw, the board has 3 r^2 + 3 r + 1 cells, the
\* six spawn coordinates are cells of type NORMAL, unowned when the match is
\* constructed, and no step changes the type of a cell or adds or removes a
\* cell
C25_BoardShape ==
    /\ Cardinality(DOMAIN hexagons) = 3 * board_radius * board_radius + 3 * board_radius + 1
    /\ \A i \in 1..6 :
            /\ spawn_positions[i] \in DOMAIN hexagons
            /\ hexagons[spawn_positions[i]].type = "NORMAL"
            /\ start_time = "None" => hexagons[spawn_positions[i]].owner = None

C25_BoardStep ==
    /\ DOMAIN hexagons' = DOMAIN hexagons
    /\ \A c \in DOMAIN hexagons : hexagons'[c].type = hexagons[c].type

C25_BoardIsFixed == []C25_BoardShape /\ [][C25_BoardStep]_vars

\* turns have written to the board: a spawn cell is owned and the bonus of
\* a RESOURCE cell is consumed
C25_Witness ==
    /\ \E i \in 1..6 : hexagons[spawn_positions[i]].owner # None
    /\ \E c \in DOMAIN hexagons :
            hexagons[c].type = "RESOURCE" /\ hexagons[c].bonus_consumed

\* C26: every participant holds at most 3 hints, none of them twice, and a
\* SOLVE_CTF grants hints in ascending order of their thresholds: a hint it
\* appends is above every hint the participant holds, so that none is
\* granted to it a second time, also after a STEAL_PROGRESS moved hints
C26_HintsDistinct ==
    \A pid \in Players :
        /\ Len(players[pid].ctf_hints) <= 3
        /\ \A i, j \in DOMAIN players[pid].ctf_hints :
                i # j => players[pid].ctf_hints[i] # players[pid].ctf_hints[j]

C26_SolveStep ==
    \A pid \in Players :
        result'.action = "solve_ctf"
            /\ Len(players'[pid].ctf_hints) > Len(players[pid].ctf_hints) =>
                \A i \in (Len(players[pid].ctf_hints) + 1)..Len(players'[pid].ctf_hints) :
                    \A j \in 1..(i - 1) :
                        players'[pid].ctf_hints[j] < players'[pid].ctf_hints[i]

C26_HintsAscendOnce == []C26_HintsDistinct /\ [][C26_SolveStep]_vars

\* C27: the set of hints a participant has unlocked only grows: no step of
\* the match, the STEAL_PROGRESS aimed at the participant included, takes a
\* hint away from the participant that holds it
C27_HintsKept ==
    \A pid \in Players :
        \A i \in DOMAIN players[pid].ctf_hints :
            \E j \in DOMAIN players'[pid].ctf_hints :
                players'[pid].ctf_hints[j] = players[pid].ctf_hints[i]

C27_HintsOnlyGrow == [][C27_HintsKept]_vars

\* the turn in which pid tries to steal from target_id, resolved with a legal
\* verdict; coin is the draw that decides whether a hint goes along
Steal(pid, target_id, coin) ==
    execute_turn(Game, pid, "steal_progress",
                 [NoData EXCEPT !.target_player = target_id, !.coin = coin], "legal", FALSE)

\* the conditions under which a STEAL_PROGRESS of pid from target_id succeeds
StealSucceeds(pid, target_id) ==
    /\ players[pid].energy >= 6
    /\ players[target_id].status = "ALIVE"
    /\ _is_adjacent(players[pid].position, players[target_id].position)
    /\ players[target_id].health <= 50

\* C28: a STEAL_PROGRESS succeeds exactly when the attacker has energy >= 6
\* and the target is ALIVE, adjacent and at health <= 50; it then costs the
\* attacker 6 energy, moves 40% of the target's progress to the attacker
\* (capped at 100) and takes exactly 15 off the target's health; otherwise
\* (an attacker with energy 4 or 5 included) it is rejected and neither
\* participant's record changes
C28_StealArithmetic(pid, target_id, after) ==
    LET stolen_progress == (players[target_id].ctf_progress * 4) \div 10
    IN  /\ after[pid].energy = players[pid].energy - 6
        /\ after[target_id].ctf_progress = players[target_id].ctf_progress - stolen_progress
        /\ after[pid].ctf_progress = Min(10000, players[pid].ctf_progress + stolen_progress)
        /\ after[target_id].health = players[target_id].health - 15

C28_StealAllOrNothing ==
    \A pid, target_id \in Players :
        ~game_over /\ pid # target_id /\ players[pid].status = "ALIVE" =>
            \A coin \in BOOLEAN :
                \A t \in {Steal(pid, target_id, coin)} :
                    IF StealSucceeds(pid, target_id)
                    THEN C28_StealArithmetic(pid, target_id, t.g.players)
                    ELSE /\ ~t.result.success
                         /\ t.g.players[pid] = players[pid]
                         /\ t.g.players[target_id] = players[target_id]

\* C29: in every reachable state every participant, ALIVE or not, has its
\* stored health within 0..100 and its shield within 0..20: the damage of an
\* ATTACK or of a STEAL_PROGRESS never leaves health below 0 and a REST never
\* raises it above 100
C29_HealthAndShieldInRange ==
    \A pid \in Players :
        /\ players[pid].health >= 0 /\ players[pid].health <= 100
        /\ players[pid].shield >= 0 /\ players[pid].shield <= 20

\* the turn in which pid claims the cell it stands on, resolved with a legal
\* verdict
Claim(pid) == execute_turn(Game, pid, "claim_territory", NoData, "legal", FALSE)

\* C30: a CLAIM_TERRITORY on a cell another participant owns is rejected and
\* changes neither the owner of the cell nor the claimant's energy or
\* territories; on an unowned cell, with energy >= 3, it costs exactly 3,
\* makes the claimant the owner, adds the cell to its territories and raises
\* its territory_income by 1; and territory_income always is the number of
\* distinct cells the participant has claimed so far, released or not, so
\* that it never decreases
C30_ClaimOutcome ==
    \A pid \in Players :
        ~game_over /\ players[pid].status = "ALIVE" =>
            \A t \in {Claim(pid)} :
                LET current_hex == players[pid].position
                    owner == hexagons[current_hex].owner
                IN  /\ owner \notin {None, pid} =>
                            /\ ~t.result.success
                            /\ t.g.hexagons[current_hex].owner = owner
                            /\ t.g.players[pid].energy = players[pid].energy
                            /\ t.g.players[pid].territories = players[pid].territories
                    /\ owner = None /\ players[pid].energy >= 3 =>
                            /\ t.g.players[pid].energy = players[pid].energy - 3
                            /\ t.g.hexagons[current_hex].owner = pid
                            /\ t.g.players[pid].territories =
                                    players[pid].territories \cup {current_hex}
                            /\ t.g.players[pid].territory_income =
                                    players[pid].territory_income + 1

C30_IncomeCountsClaims ==
    \A pid \in Players :
        players[pid].territory_income = Cardinality(players[pid].territories)

C30_IncomeStep ==
    \A pid \in Players :
        /\ players[pid].territories \subseteq players'[pid].territories
        /\ players'[pid].territory_income >= players[pid].territory_income

C30_ClaimAndIncome ==
    [](C30_ClaimOutcome /\ C30_IncomeCountsClaims) /\ [][C30_IncomeStep]_vars

\* the REST of pid as _execute_action resolves it
Rest(pid) == _execute_action(Game, pid, "rest", NoData)

\* the last action tracked for pid is a REST
RestedLast(pid) ==
    /\ players[pid].last_actions # <<>>
    /\ players[pid].last_actions[Len(players[pid].last_actions)] = "rest"

\* C31: a REST is resolved as a MOVE of one step towards a nearest unowned
\* cell exactly when the last action tracked for the participant is a REST,
\* its energy is >= 4 and a cell other than its own is unowned; in every
\* other case the REST sets energy to min(max_energy, energy + 3 +
\* territory_income) and health to min(100, health + 10) and changes neither
\* the position nor the board
C31_RestOrMove ==
    \A pid \in Players :
        ~game_over /\ players[pid].status = "ALIVE" =>
            \A x \in {Rest(pid)} :
                LET pos == players[pid].position
                    to == x.g.players[pid].position
                IN  IF RestedLast(pid) /\ players[pid].energy >= 4 /\ Unowned(pos) # {}
                    THEN /\ x.result.action = "auto_move"
                         /\ x.result.original_action = "rest"
                         /\ _is_adjacent(pos, to)
                         /\ \E c \in Unowned(pos) :
                                /\ _hex_distance(pos, c) = Nearest(pos)
                                /\ _hex_distance(to, c) = Nearest(pos) - 1
                    ELSE /\ x.result.action = "rest" /\ x.result.success
                         /\ x.g.players[pid].energy =
                                Min(players[pid].max_energy,
                                    players[pid].energy + 3 + players[pid].territory_income)
                         /\ x.g.players[pid].health = Min(100, players[pid].health + 10)
                         /\ to = pos
                         /\ x.g.hexagons = hexagons

\* a REST that followed a REST was resolved as a MOVE: the participant left
\* its spawn cell and its tracked actions still end with the one REST
C31_Witness ==
    /\ result.action = "auto_move" /\ result.original_action = "rest" /\ result.success
    /\ \E pid \in Players :
            /\ players[pid].position # spawn_positions[pid]
            /\ players[pid].last_actions = <<"rest">>

\* C32: last_actions is the list of the kinds of the participant's latest
\* resolved actions, at most 5 of them in the order they were resolved:
\* every turn that is resolved with success as the action requested, of
\* whatever kind, appends its kind, and the oldest entry leaves when there
\* are more than 5
C32_Bounded == \A pid \in Players : Len(players[pid].last_actions) <= 5

C32_TurnIsTracked ==
    /\ action_history'.len = action_history.len + 1
    /\ result'.success /\ result'.action \in ActionType
    => LET pid == action_history'.last[3]
           appended == Append(players[pid].last_actions, action_history'.last[4])
       IN  players'[pid].last_actions =
                IF Len(appended) > 5 THEN SubSeq(appended, 2, 6) ELSE appended

C32_LastFiveActions == []C32_Bounded /\ [][C32_TurnIsTracked]_vars

\* the SCOUT of pid as _execute_action resolves it
Scout(pid) == _execute_action(Game, pid, "scout", NoData)

\* C33: a SCOUT the participant can pay (energy >= 2) is resolved as a MOVE
\* of one step when every on-board neighbour of its cell is in seen_tiles,
\* seen_tiles has more than 3 cells and a cell other than its own is
\* unowned; otherwise it costs exactly 2 energy and adds the cell and all its
\* on-board neighbours to seen_tiles.  Either way vision_range is afterwards
\* what it was, and no step of the match takes a cell out of seen_tiles
C33_ScoutOutcome ==
    \A pid \in Players :
        ~game_over /\ players[pid].status = "ALIVE" /\ players[pid].energy >= 2 =>
            \A x \in {Scout(pid)} :
                LET pos == players[pid].position
                    around == Around(pos) \cap Cells
                IN  /\ x.g.players[pid].vision_range = players[pid].vision_range
                    /\ IF /\ around \subseteq players[pid].seen_tiles
                          /\ Cardinality(players[pid].seen_tiles) > 3
                          /\ Unowned(pos) # {}
                       THEN /\ x.result.action = "auto_move"
                            /\ x.result.original_action = "scout"
                            /\ _is_adjacent(pos, x.g.players[pid].position)
                            /\ x.g.players[pid].seen_tiles = players[pid].seen_tiles
                       ELSE /\ x.result.action = "scout" /\ x.result.success
                            /\ x.g.players[pid].energy = players[pid].energy - 2
                            /\ x.g.players[pid].seen_tiles =
                                    players[pid].seen_tiles \cup {pos} \cup around
                            /\ x.g.players[pid].position = pos

C33_ScoutStep ==
    \A pid \in Players :
        /\ players[pid].seen_tiles \subseteq players'[pid].seen_tiles
        /\ players'[pid].vision_range = players[pid].vision_range

C33_ScoutFrame == []C33_ScoutOutcome /\ [][C33_ScoutStep]_vars

\* a participant scouted from its spawn cell, which has three neighbours on
\* the board, and its second SCOUT there was resolved as a MOVE
C33_Witness ==
    /\ result.action = "auto_move" /\ result.original_action = "scout" /\ result.success
    /\ \E pid \in Players :
            /\ players[pid].seen_tiles = {spawn_positions[pid]}
                    \cup (Around(spawn_positions[pid]) \cap Cells)
            /\ players[pid].position # spawn_positions[pid]
            /\ players[pid].vision_range = 2

\* the neighbours of pos on the board through which a shortest path leads to
\* an unowned cell at the least distance from pos
Candidates(pos) ==
    {n \in Around(pos) \cap Cells :
        \E c \in Unowned(pos) : /\ _hex_distance(pos, c) = Nearest(pos)
                                /\ _hex_distance(n, c) = Nearest(pos) - 1}

\* C34: on every board and from every cell the nearest-unowned search
\* answers none exactly when no cell other than the start is unowned;
\* otherwise it answers a cell of the board adjacent to the start through
\* which a shortest path leads to an unowned cell at the least hex distance,
\* and of several such cells the first in the neighbour order (1,0), (1,-1),
\* (0,-1), (-1,0), (-1,1), (0,1)
C34_FirstStepToNearest ==
    \A pid \in Players :
        \A step \in {_find_nearest_unowned_for_player(Game, pid)} :
            LET pos == players[pid].position
                at(i) == <<pos[1] + directions[i][1], pos[2] + directions[i][2]>>
            IN  IF Unowned(pos) = {}
                THEN step = <<>>
                ELSE \E i \in 1..6 :
                        /\ step = at(i)
                        /\ step \in Candidates(pos)
                        /\ \A j \in 1..(i - 1) : at(j) \notin Candidates(pos)

\* participant 1 was moved by the search from a cell with no unowned
\* neighbour onto a cell participant 2 owns, next to an unowned cell
C34_Witness ==
    /\ result.action = "auto_move" /\ result.success
    /\ hexagons[players[1].position].owner = 2
    /\ Nearest(players[1].position) = 1
    /\ \E c \in Cells : hexagons[c].owner = 1

\* what C35 says of the match `after` a turn of pid taken when the time is
\* up: pid is ELIMINATED with its record otherwise as it was, the cells of
\* its territories are unowned and the other cells as they were; a single
\* survivor is WINNER of a match that is over, and with more survivors the
\* match goes on with their records untouched
C35_TimedOut(pid, after) ==
    LET survivors == {p \in Players \ {pid} : players[p].status = "ALIVE"}
    IN  /\ after.players[pid] = [players[pid] EXCEPT !.status = "ELIMINATED"]
        /\ \A c \in Cells :
                after.hexagons[c] =
                    IF c \in players[pid].territories
                    THEN [hexagons[c] EXCEPT !.owner = None]
                    ELSE hexagons[c]
        /\ \A p \in Players \ (survivors \cup {pid}) : after.players[p] = players[p]
        /\ IF Cardinality(survivors) = 1
           THEN \A p \in survivors :
                    /\ after.players[p] = [players[p] EXCEPT !.status = "WINNER"]
                    /\ after.winner = p /\ after.game_over
           ELSE /\ \A p \in survivors : after.players[p] = players[p]
                /\ after.winner = winner
                /\ after.game_over = (survivors = {})

\* C35: once the time budget of a started match is exceeded, every turn of
\* an ALIVE participant, whatever the action, its payload and the verdict
\* the judge would give, eliminates that participant for timeout instead of
\* resolving the action, and releases its territories; the match goes on
\* for the others, and the last one left ALIVE is declared WINNER
C35_TimeoutEliminates ==
    \A pid \in Players :
        ~game_over /\ players[pid].status = "ALIVE" =>
            \A action \in ActionType, verdict \in Verdicts :
                \A data \in Inputs(pid, action) :
                    \A t \in {execute_turn(Game, pid, action, data, verdict, TRUE)} :
                        /\ t.result.error = "Timeout"
                        /\ ~t.recorded
                        /\ C35_TimedOut(pid, t.g)

C35_LateStep ==
    time_up /\ result' # result =>
        result'.error \in {"Timeout", "Game is over", "Player is not active"}

C35_TimeoutRule == []C35_TimeoutEliminates /\ [][C35_LateStep]_vars

\* the time ran out on a match in which cells were claimed: two participants
\* were eliminated for timeout at their next turn, the cells of the one that
\* held territory are released, and the third is the WINNER
C35_Witness ==
    /\ time_up /\ result.error = "Timeout"
    /\ game_over /\ winner \in Players /\ players[winner].status = "WINNER"
    /\ \E pid \in Players :
            /\ players[pid].status = "ELIMINATED"
            /\ players[pid].territories # {}
            /\ \A c \in players[pid].territories : hexagons[c].owner = None

\* C36: in every reachable state the energy of every participant is at most
\* its max_energy, which is 15: what an ATTACK steals, what a REST restores
\* and the bonus of a RESOURCE cell are capped at max_energy
C36_EnergyCapped ==
    \A pid \in Players :
        /\ players[pid].max_energy = 15
        /\ players[pid].energy <= players[pid].max_energy

\* the cap was needed: in the first turn of a match a participant with
\* energy 15 moved onto the RESOURCE cell and has 15, not 16, the bonus
\* being consumed
C36_Witness ==
    /\ result.action = "move" /\ result.success
    /\ turn_number = 1
    /\ \E pid \in Players :
            /\ action_history.last[3] = pid
            /\ hexagons[players[pid].position].type = "RESOURCE"
            /\ hexagons[players[pid].position].bonus_consumed
            /\ players[pid].energy = 15

\* C37: in every reachable state every participant stands on a cell of the
\* board; a turn resolved as a successful MOVE, requested or substituted by
\* a stall auto-conversion, puts the mover on a cell at hex distance exactly
\* 1 from where it stood, and nothing else changes the position of any
\* participant
C37_OnBoard == \A pid \in Players : players[pid].position \in Cells

C37_PositionStep ==
    /\ \A pid \in Players :
            players'[pid].position # players[pid].position =>
                /\ result'.action \in {"move", "auto_move"} /\ result'.success
                /\ _hex_distance(players[pid].position, players'[pid].position) = 1
                /\ \A other \in Players \ {pid} :
                        players'[other].position = players[other].position
    /\ /\ action_history'.len = action_history.len + 1
       /\ result'.action \in {"move", "auto_move"} /\ result'.success
       => LET pid == action_history'.last[3]
          IN  _hex_distance(players[pid].position, players'[pid].position) = 1

C37_PositionsOnBoard == []C37_OnBoard /\ [][C37_PositionStep]_vars

\* a participant moved twice and is back on its spawn cell, the two others
\* never left theirs
C37_Witness ==
    /\ result.action = "move" /\ result.success
    /\ turn_number = 2
    /\ \A pid \in Players : players[pid].position = spawn_positions[pid]
    /\ \E pid \in Players : players[pid].energy = 11 /\ action_history.last[3] = pid

\* C38: the board and the participants' records agree on ownership: in every
\* reachable state a cell owned by participant p is in p's territories, and
\* no cell is in the territories of two distinct ALIVE participants
C38_OwnershipConsistent ==
    /\ \A c \in Cells :
            hexagons[c].owner # None =>
                /\ hexagons[c].owner \in Players
                /\ c \in players[hexagons[c].owner].territories
    /\ \A p, q \in Players :
            p # q /\ players[p].status = "ALIVE" /\ players[q].status = "ALIVE" =>
                players[p].territories \cap players[q].territories = {}

\* a cell is in the territories of two participants, of which one is
\* ELIMINATED and the other, ALIVE, owns the cell now
C38_Witness ==
    \E p, q \in Players :
        /\ p # q
        /\ players[p].status = "ELIMINATED" /\ players[q].status = "ALIVE"
        /\ \E c \in players[p].territories \cap players[q].territories :
                hexagons[c].owner = q

\* the actions a stall auto-conversion can replace by a MOVE
StallActions == {"claim_territory", "rest", "scout"}

\* C39: whenever a stall auto-conversion fires (a CLAIM_TERRITORY on an own
\* cell, a REST after a REST, a SCOUT with nothing new to see), the MOVE put
\* in its place succeeds: the call returns an outcome that carries the kind
\* of the action requested, the participant stands on a cell of the board
\* adjacent to where it stood, has paid exactly 2 energy (before the bonus
\* of a RESOURCE cell) and has no new illegal-move strike
C39_ConvertedMoveSucceeds ==
    \A pid \in Players :
        ~game_over /\ players[pid].status = "ALIVE" =>
            \A action \in StallActions :
                \A x \in {_execute_action(Game, pid, action, NoData)} :
                    x.result.action = "auto_move" =>
                        LET to == x.g.players[pid].position
                            bonus == hexagons[to].type = "RESOURCE"
                                        /\ ~hexagons[to].bonus_consumed
                        IN  /\ x.raised = "none"
                            /\ x.result.success
                            /\ x.result.original_action = action
                            /\ to \in Cells
                            /\ _is_adjacent(players[pid].position, to)
                            /\ x.g.players[pid].energy =
                                    IF bonus
                                    THEN Min(players[pid].max_energy, players[pid].energy - 2 + 3)
                                    ELSE players[pid].energy - 2
                            /\ x.g.players[pid]._bad_moves <= players[pid]._bad_moves

\* C40: once game_over is true every execute_turn, for whatever participant,
\* action, payload, verdict and clock, is rejected with 'Game is over' and
\* leaves the match as it is: winner, every participant's record, the
\* board, the turn counter and the action history; and no turn makes
\* game_over false again
C40_TurnAfterTheEnd ==
    game_over =>
        \A pid \in Players, action \in ActionType, verdict \in Verdicts, timed_out \in BOOLEAN :
            \A data \in Inputs(pid, action) :
                \A t \in {execute_turn(Game, pid, action, data, verdict, timed_out)} :
                    /\ t.result.error = "Game is over"
                    /\ ~t.result.success
                    /\ t.raised = "none" /\ ~t.recorded
                    /\ t.g.players = players /\ t.g.hexagons = hexagons
                    /\ t.g.winner = winner /\ t.g.game_over

C40_EndStep ==
    game_over =>
        /\ game_over'
        /\ UNCHANGED <<players, hexagons, winner, turn_number, action_history>>

C40_OverStaysOver == []C40_TurnAfterTheEnd /\ [][C40_EndStep]_vars

\* a turn was issued after a participant won the match with the correct
\* flag, and was answered 'Game is over'
C40_Witness ==
    /\ game_over /\ winner \in Players
    /\ result.call = "execute_turn" /\ result.error = "Game is over"
    /\ action_history.last[4] = "solve_ctf"
    /\ turn_number = action_history.len

====
